---- MODULE Spec2Model ----
(***************************************************************************)
(* The JSON codec of package openapi3: every node's UnmarshalJSON and      *)
(* MarshalJSON follow one generated pattern (known keys, required keys,    *)
(* constant keys, ^x- bucket, oneOf arms, not-constraints, marshalUnion).  *)
(*                                                                         *)
(* A payload is the rawMap of the code: a function from keys to raw JSON   *)
(* texts (json.RawMessage), e.g. "\"path\"", "true", "null", "{}".         *)
(* An encoded object is the sequence of <<key, raw>> pairs marshalUnion    *)
(* writes, duplicates kept.  Nested objects are raw texts of a small       *)
(* vocabulary; ParseObject reads them into a rawMap.                       *)
(***************************************************************************)
EXTENDS Integers, Sequences, FiniteSets, TLC

VARIABLES typ, data, recv, pc, res, out, res2, alt, tables, calls, args, merged, scan

vars == <<typ, data, recv, pc, res, out, res2, alt, tables, calls, args, merged, scan>>

\* Largest number of keys of a payload.
MaxKeys == 4

(***************************************************************************)
(* Raw JSON values                                                         *)
(***************************************************************************)

\* A nil pointer / nil map / nil interface held by a field of a node.
ABSENT == "<nil>"

StringVals ==
  { "\"\"", "\"id\"", "\"d\"", "\"path\"", "\"query\"", "\"header\"",
    "\"cookie\"", "\"body\"", "\"simple\"", "\"form\"", "\"matrix\"",
    "\"bearer\"", "\"basic\"", "\"apiKey\"", "\"http\"", "\"oauth2\"",
    "\"openIdConnect\"", "\"JWT\"", "\"#/a\"", "\"string\"", "\"u\"" }

BoolVals == { "true", "false" }

ObjectVals ==
  { "{}", "{\"a\":{}}", "{\"a\":\"b\"}", "{\"type\":\"string\"}",
    "{\"$ref\":\"#/a\"}", "{\"type\":\"string\",\"$ref\":\"#/a\"}",
    "{\"bogus\":1}" }

\* json.Unmarshal(raw, &rawMap) of a nested object text.
ParseObject(v) ==
  CASE v = "{}" -> [k \in {} |-> "null"]
    [] v = "{\"a\":{}}" -> [k \in {"a"} |-> "{}"]
    [] v = "{\"a\":\"b\"}" -> [k \in {"a"} |-> "\"b\""]
    [] v = "{\"type\":\"string\"}" -> [k \in {"type"} |-> "\"string\""]
    [] v = "{\"$ref\":\"#/a\"}" -> [k \in {"$ref"} |-> "\"#/a\""]
    [] v = "{\"type\":\"string\",\"$ref\":\"#/a\"}" ->
         [k \in {"type", "$ref"} |-> IF k = "type" THEN "\"string\"" ELSE "\"#/a\""]
    [] v = "{\"bogus\":1}" -> [k \in {"bogus"} |-> "1"]

\* Enumerations, as the raw texts of their values.
ParameterInVals == { "\"path\"", "\"query\"", "\"header\"", "\"cookie\"" }
SchemaTypeVals == { "\"array\"", "\"boolean\"", "\"integer\"", "\"number\"",
                    "\"object\"", "\"string\"" }
PathParameterStyleVals == { "\"matrix\"", "\"label\"", "\"simple\"" }
QueryParameterStyleVals == { "\"form\"", "\"spaceDelimited\"", "\"pipeDelimited\"",
                             "\"deepObject\"" }
APIKeySecuritySchemeInVals == { "\"header\"", "\"query\"", "\"cookie\"" }

\* regexX = ^x-  over the key vocabulary of the model.
regexX(key) == key \in { "x-a", "x-b" }

(***************************************************************************)
(* Errors.  One record shape for every error the decoders return.          *)
(***************************************************************************)
Err(kind, key, expected, received, keys, valid, arms) ==
  [kind |-> kind, key |-> key, expected |-> expected, received |-> received,
   keys |-> keys, valid |-> valid, arms |-> arms]

NoErr == Err("ok", "", "", "", {}, 0, {})
\* json.Unmarshal(data, &m) failed: a value of the wrong JSON type, an enum
\* value outside its set, or a nested node that rejects its value.
ErrMalformed == Err("malformed", "", "", "", {}, 0, {})
\* errors.New("required key missing: " + key)
ErrRequired(key) == Err("required", key, "", "", {}, 0, {})
\* fmt.Errorf(`bad const value for %q (%s expected, %s received)`, ...)
ErrConst(key, expected, received) == Err("const", key, expected, received, {}, 0, {})
\* fmt.Errorf("additional properties not allowed in T: %v", offendingKeys)
ErrAdditional(keys) == Err("additional", "", "", "", keys, 0, {})
\* fmt.Errorf("oneOf constraint failed for T with %d valid results: %v", n, oneOfErrors)
ErrOneOf(valid, arms) == Err("oneOf", "", "", "", {}, valid, arms)
\* errors.New("not constraint failed for T")
ErrNot == Err("not", "", "", "", {}, 0, {})
\* errors.New(`property "bearerFormat" should not exist`)
ErrShouldNotExist(key) == Err("shouldNotExist", key, "", "", {}, 0, {})

\* One entry of a oneOfErrors map: the arm's name and the error it returned.
ArmErr(arm, e) == <<arm, e.kind, e.key>>

(***************************************************************************)
(* Struct fields: what encoding/json does with one field of a marshalT     *)
(* struct, by the Go type of the field.                                    *)
(*   string        string, no omitempty                                    *)
(*   pstring pbool *string, *bool with omitempty                           *)
(*   any           interface{}, no omitempty                               *)
(*   pany          *interface{} with omitempty                             *)
(*   mapMediaType  map[string]MediaType with omitempty                     *)
(*   mapString     map[string]string with omitempty                        *)
(*   ParameterIn, APIKeySecuritySchemeIn   enum held by value              *)
(*   pSchemaType, pPathParameterStyle, pQueryParameterStyle  *enum,        *)
(*                 omitempty                                               *)
(*   pSchemaOrRef  *SchemaOrRef with omitempty                             *)
(*   OAuthFlows    struct held by value                                    *)
(***************************************************************************)
Field(key, kind) == [key |-> key, kind |-> kind]

FieldKeys(fields) == { fields[i].key : i \in DOMAIN fields }

FieldKind(fields, key) ==
  LET i == CHOOSE j \in DOMAIN fields : fields[j].key = key IN fields[i].kind

\* The zero value of a field.
ZeroOf(kind) ==
  CASE kind \in { "string", "ParameterIn", "APIKeySecuritySchemeIn" } -> "\"\""
    [] kind = "any" -> "null"
    [] kind = "OAuthFlows" -> "{}"
    [] OTHER -> ABSENT

ZeroFields(fields) == [k \in FieldKeys(fields) |-> ZeroOf(FieldKind(fields, k))]

\* Whether json.Unmarshal stores raw value v into a field of this kind
\* without error, for the kinds that hold no nested node.  A null is stored
\* into pointers, maps and interfaces as nil and leaves a string as it is;
\* an enum held by value has its UnmarshalJSON called with null, which
\* reads "" and rejects it.
AcceptsPlain(kind, v) ==
  CASE kind \in { "string", "pstring" } -> v = "null" \/ v \in StringVals
    [] kind = "pbool" -> v = "null" \/ v \in BoolVals
    [] kind \in { "any", "pany" } -> TRUE
    [] kind = "mapMediaType" -> v \in { "null", "{}", "{\"a\":{}}" }
    [] kind = "mapString" -> v \in { "null", "{}", "{\"a\":\"b\"}" }
    [] kind = "ParameterIn" -> v \in ParameterInVals
    [] kind = "APIKeySecuritySchemeIn" -> v \in APIKeySecuritySchemeInVals
    [] kind = "pSchemaType" -> v = "null" \/ v \in SchemaTypeVals
    [] kind = "pPathParameterStyle" -> v = "null" \/ v \in PathParameterStyleVals
    [] kind = "pQueryParameterStyle" -> v = "null" \/ v \in QueryParameterStyleVals
    [] kind = "OAuthFlows" -> v \in { "null", "{}" }

\* json.Unmarshal(raw, &val) with val an interface{}, written as the text
\* json.Marshal(val) gives back: a number is read as a float64, so 1.0 comes
\* back as 1 and 9007199254740993 (2^53 + 1) as 9007199254740992.
Interface(v) ==
  CASE v = "1.0" -> "1"
    [] v = "9007199254740993" -> "9007199254740992"
    [] OTHER -> v

\* The field after json.Unmarshal stored v into it.
Store(kind, old, v) ==
  IF v = "null"
    THEN (CASE kind = "string" -> old
            [] kind = "any" -> "null"
            [] kind = "OAuthFlows" -> old
            [] OTHER -> ABSENT)
    ELSE IF kind \in { "any", "pany" } THEN Interface(v) ELSE v

\* json.Unmarshal(data, &mt) into the marshalT copy of the receiver: each
\* key of the payload that names a field is stored into it, the other keys
\* are skipped.
StoreFields(fields, old, p) ==
  LET hit == FieldKeys(fields) \cap DOMAIN p IN
  [k \in DOMAIN old |->
     IF k \in hit THEN Store(FieldKind(fields, k), old[k], p[k]) ELSE old[k]]

\* The error of that json.Unmarshal, for a struct whose modelled fields
\* hold no nested node.
PlainMalformedErr(fields, p) ==
  IF \A k \in FieldKeys(fields) \cap DOMAIN p :
       AcceptsPlain(FieldKind(fields, k), p[k])
    THEN NoErr ELSE ErrMalformed

\* Variant: a check that takes a key with null for a missing key.
RequiredNonNull(requireKeys, p) ==
  LET miss == { i \in DOMAIN requireKeys :
                  requireKeys[i] \notin DOMAIN p \/ p[requireKeys[i]] = "null" } IN
  IF miss = {} THEN NoErr
  ELSE ErrRequired(requireKeys[CHOOSE i \in miss : \A j \in miss : i <= j])

\* `for _, key := range requireKeysT { if _, found := rawMap[key]; !found`
RequiredErr(requireKeys, p) ==
  LET miss == { i \in DOMAIN requireKeys : requireKeys[i] \notin DOMAIN p } IN
  IF miss = {} THEN NoErr
  ELSE ErrRequired(requireKeys[CHOOSE i \in miss : \A j \in miss : i <= j])

Const(key, lit) == [key |-> key, lit |-> lit]

\* Variant: a decoder that does not compare constants.
ConstOk(consts, p) == NoErr

\* Variant: a decoder that wants every constant key present.
ConstPresentErr(consts, p) ==
  LET miss == { i \in DOMAIN consts : consts[i].key \notin DOMAIN p } IN
  IF miss = {} THEN NoErr
  ELSE LET i == CHOOSE i \in miss : \A j \in miss : i <= j IN
       ErrConst(consts[i].key, consts[i].lit, "null")

\* `if v, exists := rawMap[key]; exists && string(v) != lit`, one constant
\* key after the other.
ConstErr(consts, p) ==
  LET bad == { i \in DOMAIN consts :
                 consts[i].key \in DOMAIN p /\ p[consts[i].key] # consts[i].lit } IN
  IF bad = {} THEN NoErr
  ELSE LET i == CHOOSE i \in bad : \A j \in bad : i <= j IN
       ErrConst(consts[i].key, consts[i].lit, p[consts[i].key])

\* Variant: a decoder that reports one offending key only.
OneOffendingKey(knownKeys, p) ==
  LET all == { k \in DOMAIN p : k \notin knownKeys /\ ~regexX(k) } IN
  IF all = {} THEN {} ELSE { CHOOSE k \in all : TRUE }

\* The keys left in rawMap after the known keys were deleted and the keys
\* the ^x- bucket matched were moved to MapOfAnything.
OffendingKeys(knownKeys, p) ==
  { k \in DOMAIN p : k \notin knownKeys /\ ~regexX(k) }

AdditionalErr(knownKeys, p) ==
  IF OffendingKeys(knownKeys, p) = {} THEN NoErr
  ELSE ErrAdditional(OffendingKeys(knownKeys, p))

\* MapOfAnything after the bucket scan: the receiver's entries, and every
\* remaining key that matches ^x- with its value.
BucketX(knownKeys, old, p) ==
  LET hit == { k \in DOMAIN p : k \notin knownKeys /\ regexX(k) } IN
  [k \in DOMAIN old \cup hit |-> IF k \in hit THEN Interface(p[k]) ELSE old[k]]

\* Variant: a decoder that runs every check and returns the last failure.
LastErr(errs) ==
  LET bad == { i \in DOMAIN errs : errs[i] # NoErr } IN
  IF bad = {} THEN NoErr ELSE errs[CHOOSE i \in bad : \A j \in bad : j <= i]

\* The first error of a sequence of checks, in the order they run.
FirstErr(errs) ==
  LET bad == { i \in DOMAIN errs : errs[i] # NoErr } IN
  IF bad = {} THEN NoErr ELSE errs[CHOOSE i \in bad : \A j \in bad : i <= j]

\* The pair a decoder returns: its error and the receiver after the call.
Ret(e, n) == [err |-> e, node |-> n]

\* `if err != nil { return err } ... *t = T(mt); return nil`: the receiver
\* is assigned only when no check failed.
Finish(e, decoded, receiver) ==
  IF e = NoErr THEN Ret(NoErr, decoded) ELSE Ret(e, receiver)

\* No entry in MapOfAnything (a nil map).
NoExt == [k \in {} |-> "null"]

\* A struct value: its fields and its MapOfAnything; set is FALSE for the
\* nil pointer.
Val(f, ext) == [set |-> TRUE, f |-> f, ext |-> ext]
Nil == [set |-> FALSE, f |-> NoExt, ext |-> NoExt]
\* new(T) for a struct T with these fields.
ZeroVal(fields) == Val(ZeroFields(fields), NoExt)

\* Variant: a decoder without the fix-up, a null key leaving a nil pointer.
NoTriState(keys, f, p) == f

\* `if mt.Example == nil { if _, ok := rawMap["example"]; ok { var v
\* interface{}; mt.Example = &v } }`: a key present with null is kept as a
\* pointer to a nil interface.
TriState(keys, f, p) ==
  [k \in DOMAIN f |->
     IF k \in keys /\ f[k] = ABSENT /\ k \in DOMAIN p THEN "null" ELSE f[k]]

(***************************************************************************)
(* Schema, SchemaReference, SchemaOrRef                                    *)
(***************************************************************************)
fieldsSchema ==
  << Field("title", "pstring"), Field("type", "pSchemaType"),
     Field("default", "pany"), Field("example", "pany") >>

knownKeysSchema == { "title", "type", "default", "example" }


UnmarshalSchema(n, p) ==
  Finish(FirstErr(<< PlainMalformedErr(fieldsSchema, p),
                  AdditionalErr(knownKeysSchema, p) >>),
         Val(TriState({"default", "example"}, StoreFields(fieldsSchema, n.f, p), p),
             BucketX(knownKeysSchema, n.ext, p)),
         n)

fieldsSchemaReference == << Field("$ref", "string") >>
knownKeysSchemaReference == { "$ref" }
requireKeysSchemaReference == << "$ref" >>


\* The reference nodes have no ^x- bucket: every key but $ref offends.
UnmarshalSchemaReference(n, p) ==
  LET rest == DOMAIN p \ knownKeysSchemaReference IN
  Finish(FirstErr(<< PlainMalformedErr(fieldsSchemaReference, p),
                  RequiredErr(requireKeysSchemaReference, p),
                  IF rest = {} THEN NoErr ELSE ErrAdditional(rest) >>),
         Val(StoreFields(fieldsSchemaReference, n.f, p), n.ext),
         n)

\* json.Unmarshal(data, &ptr) for an object payload: a nil pointer is
\* allocated first, then the value's UnmarshalJSON runs on the pointee.
Target(ptr, zero) == IF ptr.set THEN ptr ELSE zero

\* `if err != nil { oneOfErrors[arm] = err; s.Arm = nil } else { oneOfValid++ }`
ArmAfter(r) == IF r.err = NoErr THEN r.node ELSE Nil

\* Variant: a group that keeps no arm's error.
NoOneOfErrors(names, rs) == {}

OneOfErrors(names, rs) ==
  { ArmErr(names[i], rs[i].err) : i \in { j \in DOMAIN rs : rs[j].err # NoErr } }

OneOfValid(rs) == Cardinality({ i \in DOMAIN rs : rs[i].err = NoErr })

\* Variant: a group that asks for at least one accepting arm (anyOf).
AnyOfErr(names, rs) ==
  IF OneOfValid(rs) = 0 THEN ErrOneOf(0, OneOfErrors(names, rs)) ELSE NoErr

OneOfErr(names, rs) ==
  IF OneOfValid(rs) # 1 THEN ErrOneOf(OneOfValid(rs), OneOfErrors(names, rs))
  ELSE NoErr

\* A oneOf node's UnmarshalJSON, given the outcome of json.Unmarshal(data,
\* &s.Arm) for each arm in the order tried: the arms are written into the
\* receiver as they are tried, whatever the count turns out to be.
OneOf(names, rs) ==
  Ret(OneOfErr(names, rs),
      [a \in { names[i] : i \in DOMAIN names } |->
         ArmAfter(rs[CHOOSE i \in DOMAIN names : names[i] = a])])

ZeroSchemaOrRef == [Schema |-> Nil, SchemaReference |-> Nil]

UnmarshalSchemaOrRef(n, p) ==
  OneOf(<<"Schema", "SchemaReference">>,
        << UnmarshalSchema(Target(n.Schema, ZeroVal(fieldsSchema)), p),
           UnmarshalSchemaReference(
             Target(n.SchemaReference, ZeroVal(fieldsSchemaReference)), p) >>)

\* The value of a "schema" key handed to SchemaOrRef.UnmarshalJSON through
\* a nil *SchemaOrRef field: a non-object is rejected by both arms.
SchemaOrRefAccepts(v) ==
  /\ v \in ObjectVals
  /\ UnmarshalSchemaOrRef(ZeroSchemaOrRef, ParseObject(v)).err = NoErr

\* Whether json.Unmarshal stores raw value v into a field of this kind.
Accepts(kind, v) ==
  IF kind = "pSchemaOrRef" THEN v = "null" \/ SchemaOrRefAccepts(v)
  ELSE AcceptsPlain(kind, v)

\* The error of json.Unmarshal(data, &mt), or none.
MalformedErr(fields, p) ==
  IF \A k \in FieldKeys(fields) \cap DOMAIN p : Accepts(FieldKind(fields, k), p[k])
    THEN NoErr ELSE ErrMalformed

(***************************************************************************)
(* SchemaXORContent: oneOf HasSchema, HasContent; not both keys            *)
(***************************************************************************)
fieldsHasSchema == << Field("schema", "any") >>
requireKeysHasSchema == << "schema" >>

UnmarshalHasSchema(n, p) ==
  Finish(FirstErr(<< MalformedErr(fieldsHasSchema, p),
                  RequiredErr(requireKeysHasSchema, p) >>),
         Val(StoreFields(fieldsHasSchema, n.f, p), n.ext),
         n)

\* Variant: an arm that accepts every payload.
UnmarshalAlways(n, p) == Ret(NoErr, n)

fieldsHasContent == << Field("content", "any") >>
requireKeysHasContent == << "content" >>

UnmarshalHasContent(n, p) ==
  Finish(FirstErr(<< MalformedErr(fieldsHasContent, p),
                  RequiredErr(requireKeysHasContent, p) >>),
         Val(StoreFields(fieldsHasContent, n.f, p), n.ext),
         n)

fieldsSchemaXORContentNot == << Field("schema", "any"), Field("content", "any") >>
requireKeysSchemaXORContentNot == << "schema", "content" >>

UnmarshalSchemaXORContentNot(n, p) ==
  Finish(FirstErr(<< MalformedErr(fieldsSchemaXORContentNot, p),
                  RequiredErr(requireKeysSchemaXORContentNot, p) >>),
         Val(StoreFields(fieldsSchemaXORContentNot, n.f, p), n.ext),
         n)

ZeroSchemaXORContent == [HasSchema |-> Nil, HasContent |-> Nil]

\* The not-constraint is tried first and returns at once, before any arm
\* is tried and with the receiver untouched.
UnmarshalSchemaXORContent(n, p) ==
  IF UnmarshalSchemaXORContentNot(ZeroVal(fieldsSchemaXORContentNot), p).err = NoErr
    THEN Ret(ErrNot, n)
    ELSE OneOf(<<"HasSchema", "HasContent">>,
               << UnmarshalHasSchema(Target(n.HasSchema, ZeroVal(fieldsHasSchema)), p),
                  UnmarshalHasContent(Target(n.HasContent, ZeroVal(fieldsHasContent)), p) >>)

(***************************************************************************)
(* ParameterLocation: oneOf PathParameter, QueryParameter,                 *)
(* HeaderParameter, CookieParameter                                        *)
(***************************************************************************)
fieldsPathParameter == << Field("style", "pPathParameterStyle") >>
requireKeysPathParameter == << "required" >>
\* The constant keys of the arm, checked on decode in this order, and the
\* fragment `{"in":"path","required":true}` added on encode.
constPathParameter == << Const("in", "\"path\""), Const("required", "true") >>

UnmarshalPathParameter(n, p) ==
  Finish(FirstErr(<< MalformedErr(fieldsPathParameter, p),
                  RequiredErr(requireKeysPathParameter, p),
                  ConstErr(constPathParameter, p) >>),
         Val(StoreFields(fieldsPathParameter, n.f, p), n.ext),
         n)

fieldsQueryParameter == << Field("style", "pQueryParameterStyle") >>
\* Variant: a query arm tagged with the literal of the path arm.
constQueryAsPath == << Const("in", "\"path\"") >>

constQueryParameter == << Const("in", "\"query\"") >>

UnmarshalQueryParameter(n, p) ==
  Finish(FirstErr(<< MalformedErr(fieldsQueryParameter, p),
                  ConstErr(constQueryParameter, p) >>),
         Val(StoreFields(fieldsQueryParameter, n.f, p), n.ext),
         n)

\* HeaderParameter and CookieParameter are struct{}: only rawMap is read.
constHeaderParameter == << Const("in", "\"header\""), Const("style", "\"simple\"") >>

UnmarshalHeaderParameter(n, p) ==
  Ret(ConstErr(constHeaderParameter, p), n)

constCookieParameter == << Const("in", "\"cookie\""), Const("style", "\"form\"") >>

UnmarshalCookieParameter(n, p) ==
  Ret(ConstErr(constCookieParameter, p), n)

ZeroParameterLocation ==
  [PathParameter |-> Nil, QueryParameter |-> Nil,
   HeaderParameter |-> Nil, CookieParameter |-> Nil]

UnmarshalParameterLocation(n, p) ==
  OneOf(<<"PathParameter", "QueryParameter", "HeaderParameter", "CookieParameter">>,
        << UnmarshalPathParameter(Target(n.PathParameter, ZeroVal(fieldsPathParameter)), p),
           UnmarshalQueryParameter(Target(n.QueryParameter, ZeroVal(fieldsQueryParameter)), p),
           UnmarshalHeaderParameter(Target(n.HeaderParameter, ZeroVal(<<>>)), p),
           UnmarshalCookieParameter(Target(n.CookieParameter, ZeroVal(<<>>)), p) >>)

(***************************************************************************)
(* Parameter: known fields, ^x- bucket, and the two embedded groups        *)
(***************************************************************************)
fieldsParameter ==
  << Field("name", "string"), Field("in", "ParameterIn"),
     Field("description", "pstring"), Field("required", "pbool"),
     Field("style", "pstring"), Field("schema", "pSchemaOrRef"),
     Field("content", "mapMediaType"), Field("example", "pany") >>

knownKeysParameter ==
  { "name", "in", "description", "required", "deprecated", "allowEmptyValue",
    "style", "explode", "allowReserved", "schema", "content", "example",
    "examples" }

requireKeysParameter == << "name", "in" >>

\* A Parameter: its fields, MapOfAnything and the pointers SchemaXORContent
\* and Location (sxcSet / locSet are FALSE for a nil pointer).
ParameterVal(f, ext, sxcSet, sxc, locSet, loc) ==
  [f |-> f, ext |-> ext, sxcSet |-> sxcSet, sxc |-> sxc,
   locSet |-> locSet, loc |-> loc]

ZeroParameter ==
  ParameterVal(ZeroFields(fieldsParameter), NoExt, FALSE, ZeroSchemaXORContent,
               FALSE, ZeroParameterLocation)

\* Parameter.UnmarshalJSON given m, the error of the struct decode, and x
\* and l, the outcomes of json.Unmarshal(data, &mp.SchemaXORContent) and
\* json.Unmarshal(data, &mp.Location): each returns at once on its error;
\* then the required keys, the tri-state example, the bucket and the
\* additional-properties check.  mp is a shallow copy: a non-nil
\* SchemaXORContent or Location of the receiver is decoded in place before
\* a later check fails.
ParameterAfter(n, p, m, x, l) ==
  Finish(FirstErr(<< m, x.err, l.err, RequiredErr(requireKeysParameter, p),
                     AdditionalErr(knownKeysParameter, p) >>),
         ParameterVal(TriState({"example"}, StoreFields(fieldsParameter, n.f, p), p),
                      BucketX(knownKeysParameter, n.ext, p),
                      TRUE, x.node, TRUE, l.node),
         [n EXCEPT !.sxc = IF n.sxcSet /\ m = NoErr THEN x.node ELSE @,
                   !.loc = IF n.locSet /\ m = NoErr /\ x.err = NoErr
                             THEN l.node ELSE @])

UnmarshalParameter(n, p) ==
  ParameterAfter(n, p, MalformedErr(fieldsParameter, p),
                 UnmarshalSchemaXORContent(n.sxc, p),
                 UnmarshalParameterLocation(n.loc, p))

(***************************************************************************)
(* Header                                                                  *)
(***************************************************************************)
fieldsHeader ==
  << Field("description", "pstring"), Field("required", "pbool"),
     Field("schema", "pSchemaOrRef"), Field("content", "mapMediaType"),
     Field("example", "pany") >>

knownKeysHeader ==
  { "description", "required", "deprecated", "allowEmptyValue", "explode",
    "allowReserved", "schema", "content", "example", "examples", "style" }

constHeader == << Const("style", "\"simple\"") >>


UnmarshalHeader(n, p) ==
  Finish(FirstErr(<< MalformedErr(fieldsHeader, p),
                  ConstErr(constHeader, p),
                  AdditionalErr(knownKeysHeader, p) >>),
         Val(TriState({"example"}, StoreFields(fieldsHeader, n.f, p), p),
             BucketX(knownKeysHeader, n.ext, p)),
         n)

(***************************************************************************)
(* Discriminator: required keys only, no known-key table                   *)
(***************************************************************************)
fieldsDiscriminator ==
  << Field("propertyName", "string"), Field("mapping", "mapString") >>
requireKeysDiscriminator == << "propertyName" >>

UnmarshalDiscriminator(n, p) ==
  Finish(FirstErr(<< MalformedErr(fieldsDiscriminator, p),
                  RequiredErr(requireKeysDiscriminator, p) >>),
         Val(StoreFields(fieldsDiscriminator, n.f, p), n.ext),
         n)

(***************************************************************************)
(* Link: not both operationId and operationRef                             *)
(***************************************************************************)
fieldsLink ==
  << Field("operationId", "pstring"), Field("operationRef", "pstring"),
     Field("requestBody", "pany"), Field("description", "pstring") >>

knownKeysLink ==
  { "operationId", "operationRef", "parameters", "requestBody", "description",
    "server" }


fieldsLinkNot == << Field("operationId", "any"), Field("operationRef", "any") >>
requireKeysLinkNot == << "operationId", "operationRef" >>

\* Variant: a forbidden shape that never matches.
UnmarshalNever(n, p) == Ret(ErrMalformed, n)

UnmarshalLinkNot(n, p) ==
  Finish(FirstErr(<< MalformedErr(fieldsLinkNot, p),
                  RequiredErr(requireKeysLinkNot, p) >>),
         Val(StoreFields(fieldsLinkNot, n.f, p), n.ext),
         n)

UnmarshalLink(n, p) ==
  Finish(FirstErr(<< IF UnmarshalLinkNot(ZeroVal(fieldsLinkNot), p).err = NoErr
                  THEN ErrNot ELSE NoErr,
                  MalformedErr(fieldsLink, p),
                  AdditionalErr(knownKeysLink, p) >>),
         Val(TriState({"requestBody"}, StoreFields(fieldsLink, n.f, p), p),
             BucketX(knownKeysLink, n.ext, p)),
         n)

(***************************************************************************)
(* Security schemes                                                        *)
(***************************************************************************)
fieldsAPIKeySecurityScheme ==
  << Field("name", "string"), Field("in", "APIKeySecuritySchemeIn"),
     Field("description", "pstring") >>
knownKeysAPIKeySecurityScheme == { "name", "in", "description", "type" }
requireKeysAPIKeySecurityScheme == << "type", "name", "in" >>
constAPIKeySecurityScheme == << Const("type", "\"apiKey\"") >>

UnmarshalAPIKeySecurityScheme(n, p) ==
  Finish(FirstErr(<< MalformedErr(fieldsAPIKeySecurityScheme, p),
                  RequiredErr(requireKeysAPIKeySecurityScheme, p),
                  ConstErr(constAPIKeySecurityScheme, p),
                  AdditionalErr(knownKeysAPIKeySecurityScheme, p) >>),
         Val(StoreFields(fieldsAPIKeySecurityScheme, n.f, p), BucketX(knownKeysAPIKeySecurityScheme, n.ext, p)),
         n)

\* Bearer is struct{}; NonBearer's one field is never written by decode.
constBearer == << Const("scheme", "\"bearer\"") >>

UnmarshalBearer(n, p) == Ret(ConstErr(constBearer, p), n)

fieldsNonBearer == << Field("scheme", "pany") >>

UnmarshalNonBearer(n, p) ==
  Ret(FirstErr(<< IF "scheme" \in DOMAIN p /\ p["scheme"] = "\"bearer\""
                    THEN ErrConst("scheme", "not \"bearer\"", p["scheme"])
                    ELSE NoErr,
                  IF "bearerFormat" \in DOMAIN p
                    THEN ErrShouldNotExist("bearerFormat") ELSE NoErr >>),
      n)

fieldsHTTPSecurityScheme ==
  << Field("scheme", "string"), Field("bearerFormat", "pstring"),
     Field("description", "pstring") >>
knownKeysHTTPSecurityScheme == { "scheme", "bearerFormat", "description", "type" }
requireKeysHTTPSecurityScheme == << "scheme", "type" >>
constHTTPSecurityScheme == << Const("type", "\"http\"") >>

HTTPVal(f, ext, bearer, nonBearer) ==
  [set |-> TRUE, f |-> f, ext |-> ext, Bearer |-> bearer, NonBearer |-> nonBearer]

ZeroHTTPSecurityScheme ==
  HTTPVal(ZeroFields(fieldsHTTPSecurityScheme), NoExt, Nil, Nil)

\* The oneOf group is decided right after the struct decode, before the
\* required keys are looked at.
UnmarshalHTTPSecurityScheme(n, p) ==
  LET a == UnmarshalBearer(Target(n.Bearer, ZeroVal(<<>>)), p)
      b == UnmarshalNonBearer(Target(n.NonBearer, ZeroVal(fieldsNonBearer)), p)
  IN Finish(FirstErr(<< MalformedErr(fieldsHTTPSecurityScheme, p),
                        OneOfErr(<<"Bearer", "NonBearer">>, <<a, b>>),
                        RequiredErr(requireKeysHTTPSecurityScheme, p),
                        ConstErr(constHTTPSecurityScheme, p),
                        AdditionalErr(knownKeysHTTPSecurityScheme, p) >>),
            HTTPVal(StoreFields(fieldsHTTPSecurityScheme, n.f, p),
                    BucketX(knownKeysHTTPSecurityScheme, n.ext, p),
                    ArmAfter(a), ArmAfter(b)),
            n)

fieldsOAuth2SecurityScheme ==
  << Field("flows", "OAuthFlows"), Field("description", "pstring") >>
knownKeysOAuth2SecurityScheme == { "flows", "description", "type" }
requireKeysOAuth2SecurityScheme == << "type", "flows" >>
constOAuth2SecurityScheme == << Const("type", "\"oauth2\"") >>

UnmarshalOAuth2SecurityScheme(n, p) ==
  Finish(FirstErr(<< MalformedErr(fieldsOAuth2SecurityScheme, p),
                  RequiredErr(requireKeysOAuth2SecurityScheme, p),
                  ConstErr(constOAuth2SecurityScheme, p),
                  AdditionalErr(knownKeysOAuth2SecurityScheme, p) >>),
         Val(StoreFields(fieldsOAuth2SecurityScheme, n.f, p), BucketX(knownKeysOAuth2SecurityScheme, n.ext, p)),
         n)

fieldsOpenIDConnectSecurityScheme ==
  << Field("openIdConnectUrl", "string"), Field("description", "pstring") >>
knownKeysOpenIDConnectSecurityScheme == { "openIdConnectUrl", "description", "type" }
requireKeysOpenIDConnectSecurityScheme == << "type", "openIdConnectUrl" >>
\* Variant: an openIdConnect arm tagged with the literal of the oauth2 arm.
constOpenIDAsOAuth2 == << Const("type", "\"oauth2\"") >>

constOpenIDConnectSecurityScheme == << Const("type", "\"openIdConnect\"") >>

UnmarshalOpenIDConnectSecurityScheme(n, p) ==
  Finish(FirstErr(<< MalformedErr(fieldsOpenIDConnectSecurityScheme, p),
                  RequiredErr(requireKeysOpenIDConnectSecurityScheme, p),
                  ConstErr(constOpenIDConnectSecurityScheme, p),
                  AdditionalErr(knownKeysOpenIDConnectSecurityScheme, p) >>),
         Val(StoreFields(fieldsOpenIDConnectSecurityScheme, n.f, p), BucketX(knownKeysOpenIDConnectSecurityScheme,
             n.ext, p)),
         n)

ZeroSecurityScheme ==
  [APIKeySecurityScheme |-> Nil, HTTPSecurityScheme |-> Nil,
   OAuth2SecurityScheme |-> Nil, OpenIDConnectSecurityScheme |-> Nil]

UnmarshalSecurityScheme(n, p) ==
  OneOf(<<"APIKeySecurityScheme", "HTTPSecurityScheme", "OAuth2SecurityScheme",
          "OpenIDConnectSecurityScheme">>,
        << UnmarshalAPIKeySecurityScheme(
             Target(n.APIKeySecurityScheme, ZeroVal(fieldsAPIKeySecurityScheme)), p),
           UnmarshalHTTPSecurityScheme(
             Target(n.HTTPSecurityScheme, ZeroHTTPSecurityScheme), p),
           UnmarshalOAuth2SecurityScheme(
             Target(n.OAuth2SecurityScheme, ZeroVal(fieldsOAuth2SecurityScheme)), p),
           UnmarshalOpenIDConnectSecurityScheme(
             Target(n.OpenIDConnectSecurityScheme,
                    ZeroVal(fieldsOpenIDConnectSecurityScheme)), p) >>)

(***************************************************************************)
(* Encoding.  A JSON text is an object (its <<key, raw>> pairs in the      *)
(* order written, duplicates kept) or any other value (its raw text).      *)
(***************************************************************************)
Obj(pairs) == [obj |-> TRUE, pairs |-> pairs, raw |-> ""]
Scalar(raw) == [obj |-> FALSE, pairs |-> <<>>, raw |-> raw]
JNull == Scalar("null")

\* What json.Marshal or a MarshalJSON returns: an error, or the text.
MOk(j) == [err |-> FALSE, j |-> j]
MErr == [err |-> TRUE, j |-> JNull]

OMIT == "<omit>"
BAD == "<error>"

\* One struct field on encode: left out (omitempty on a nil pointer or an
\* empty map), an error (an enum's MarshalJSON on a value outside its
\* set), or the raw text written.
EmitField(kind, v) ==
  CASE kind \in { "string", "any", "OAuthFlows" } -> v
    [] kind \in { "pstring", "pbool", "pany", "pSchemaOrRef" } ->
         IF v = ABSENT THEN OMIT ELSE v
    [] kind \in { "mapMediaType", "mapString" } ->
         IF v \in { ABSENT, "{}" } THEN OMIT ELSE v
    [] kind = "ParameterIn" -> IF v \in ParameterInVals THEN v ELSE BAD
    [] kind = "APIKeySecuritySchemeIn" ->
         IF v \in APIKeySecuritySchemeInVals THEN v ELSE BAD
    [] kind = "pSchemaType" ->
         IF v = ABSENT THEN OMIT ELSE IF v \in SchemaTypeVals THEN v ELSE BAD
    [] kind = "pPathParameterStyle" ->
         IF v = ABSENT THEN OMIT
         ELSE IF v \in PathParameterStyleVals THEN v ELSE BAD
    [] kind = "pQueryParameterStyle" ->
         IF v = ABSENT THEN OMIT
         ELSE IF v \in QueryParameterStyleVals THEN v ELSE BAD

\* Variant: an encoder that writes no known field.
MarshalEmptyStruct(fields, f) == MOk(Obj(<<>>))

\* json.Marshal of a marshalT struct: the fields in declaration order.
MarshalFields(fields, f) ==
  LET all == [i \in DOMAIN fields |->
                <<fields[i].key, EmitField(fields[i].kind, f[fields[i].key])>>]
  IN IF \E i \in DOMAIN all : all[i][2] = BAD THEN MErr
     ELSE MOk(Obj(SelectSeq(all, LAMBDA x : x[2] # OMIT)))

\* Variant: an encoder that adds no constant.
MarshalNoConst(consts) == MOk(Obj(<<>>))

\* json.Marshal of a constT raw message.
MarshalConst(consts) ==
  MOk(Obj([i \in DOMAIN consts |-> <<consts[i].key, consts[i].lit>>]))

\* The keys a MapOfAnything of the model may hold, in the sorted order
\* json.Marshal writes map keys.
ExtKeyOrder == << "style", "type", "x-a", "x-b" >>

\* Variant: an encoder that leaves MapOfAnything out.
MarshalNilMap(ext) == MOk(JNull)

\* json.Marshal(t.MapOfAnything): null for a nil map.
MarshalMapOfAnything(ext) ==
  IF DOMAIN ext = {} THEN MOk(JNull)
  ELSE LET ks == SelectSeq(ExtKeyOrder, LAMBDA k : k \in DOMAIN ext)
       IN MOk(Obj([i \in DOMAIN ks |-> <<ks[i], ext[ks[i]]>>]))

\* Variant: a merge that writes a later fragment's fields before the
\* fields merged so far.
RECURSIVE unionPrepending(_, _, _)
unionPrepending(maps, i, acc) ==
  IF i > Len(maps) THEN MOk(acc)
  ELSE IF maps[i].err \/ ~maps[i].j.obj THEN MErr
  ELSE unionPrepending(maps, i + 1, Obj(maps[i].j.pairs \o acc.pairs))

\* Variant: a merge that keeps the latest fragment when the kinds differ.
RECURSIVE unionPicking(_, _, _)
unionPicking(maps, i, acc) ==
  IF i > Len(maps) THEN MOk(acc)
  ELSE IF maps[i].err THEN MErr
  ELSE IF maps[i].j = Obj(<<>>) \/ maps[i].j = JNull
         THEN unionPicking(maps, i + 1, acc)
  ELSE IF maps[i].j.obj /\ acc.obj
         THEN unionPicking(maps, i + 1, Obj(acc.pairs \o maps[i].j.pairs))
  ELSE unionPicking(maps, i + 1, maps[i].j)

\* Variant: a merge that stops at the first scalar and returns it.
RECURSIVE unionScalarWins(_, _, _)
unionScalarWins(maps, i, acc) ==
  IF i > Len(maps) THEN MOk(acc)
  ELSE IF maps[i].err THEN MErr
  ELSE IF maps[i].j = Obj(<<>>) \/ maps[i].j = JNull
         THEN unionScalarWins(maps, i + 1, acc)
  ELSE IF ~maps[i].j.obj
         THEN IF acc = Obj(<<>>) THEN MOk(maps[i].j) ELSE MErr
  ELSE unionScalarWins(maps, i + 1, Obj(acc.pairs \o maps[i].j.pairs))

\* Variant: a merge that skips null only, and takes {} for an object.
RECURSIVE unionKeepingEmpty(_, _, _)
unionKeepingEmpty(maps, i, acc) ==
  IF i > Len(maps) THEN MOk(acc)
  ELSE IF maps[i].err THEN MErr
  ELSE IF maps[i].j = JNull THEN unionKeepingEmpty(maps, i + 1, acc)
  ELSE IF ~maps[i].j.obj
         THEN IF acc = Obj(<<>>) THEN unionKeepingEmpty(maps, i + 1, maps[i].j)
              ELSE MErr
  ELSE IF ~acc.obj THEN MErr
  ELSE unionKeepingEmpty(maps, i + 1, Obj(acc.pairs \o maps[i].j.pairs))

\* The loop of marshalUnion from fragment i on; acc is (result, isObject):
\* result is "{" followed by acc.pairs while acc.obj, else the text acc.raw.
RECURSIVE unionFrom(_, _, _)
unionFrom(maps, i, acc) ==
  IF i > Len(maps) THEN MOk(acc)
  ELSE LET m == maps[i]
           j == m.j
           lenIsOne == IF acc.obj THEN acc.pairs = <<>> ELSE Len(acc.raw) = 1
       IN IF m.err THEN MErr
          ELSE IF j = Obj(<<>>) \/ j = JNull THEN unionFrom(maps, i + 1, acc)
          ELSE IF ~j.obj
                 THEN IF lenIsOne /\ (acc.obj \/ acc.raw = j.raw)
                        THEN unionFrom(maps, i + 1, Scalar(j.raw))
                        ELSE MErr
          ELSE IF ~acc.obj THEN MErr
          ELSE unionFrom(maps, i + 1, Obj(acc.pairs \o j.pairs))

marshalUnion(maps) == unionFrom(maps, 1, Obj(<<>>))

\* json.Marshal of a pointer: null when nil, else the pointee's encoding m.
MarshalPtr(ptr, m) == IF ptr.set THEN m ELSE MOk(JNull)

\* The object a decoder of the text sees: for a key written more than
\* once, the last occurrence.
LastWins(pairs) ==
  [k \in { pairs[i][1] : i \in DOMAIN pairs } |->
     LET last == CHOOSE i \in DOMAIN pairs :
                   /\ pairs[i][1] = k
                   /\ \A j \in DOMAIN pairs : pairs[j][1] = k => j <= i
     IN pairs[last][2]]

MarshalSchema(n) ==
  marshalUnion(<< MarshalFields(fieldsSchema, n.f), MarshalMapOfAnything(n.ext) >>)

\* The types without a MarshalJSON are encoded as plain structs.
MarshalDiscriminator(n) == MarshalFields(fieldsDiscriminator, n.f)

MarshalSchemaOrRef(n) ==
  marshalUnion(<< MarshalPtr(n.Schema, MarshalSchema(n.Schema)),
                  MarshalPtr(n.SchemaReference, MarshalFields(fieldsSchemaReference, n.SchemaReference.f)) >>)

MarshalSchemaXORContent(n) ==
  marshalUnion(<< MarshalPtr(n.HasSchema, MarshalFields(fieldsHasSchema, n.HasSchema.f)),
                  MarshalPtr(n.HasContent, MarshalFields(fieldsHasContent, n.HasContent.f)) >>)

MarshalPathParameter(n) ==
  marshalUnion(<< MarshalConst(constPathParameter),
                  MarshalFields(fieldsPathParameter, n.f) >>)

MarshalQueryParameter(n) ==
  marshalUnion(<< MarshalConst(constQueryParameter),
                  MarshalFields(fieldsQueryParameter, n.f) >>)

MarshalHeaderParameter(n) == marshalUnion(<< MarshalConst(constHeaderParameter) >>)

MarshalCookieParameter(n) == marshalUnion(<< MarshalConst(constCookieParameter) >>)

MarshalParameterLocation(n) ==
  marshalUnion(<< MarshalPtr(n.PathParameter, MarshalPathParameter(n.PathParameter)),
                  MarshalPtr(n.QueryParameter, MarshalQueryParameter(n.QueryParameter)),
                  MarshalPtr(n.HeaderParameter, MarshalHeaderParameter(n.HeaderParameter)),
                  MarshalPtr(n.CookieParameter, MarshalCookieParameter(n.CookieParameter)) >>)

MarshalParameter(n) ==
  marshalUnion(<< MarshalFields(fieldsParameter, n.f),
                  MarshalMapOfAnything(n.ext),
                  IF n.sxcSet THEN MarshalSchemaXORContent(n.sxc) ELSE MOk(JNull),
                  IF n.locSet THEN MarshalParameterLocation(n.loc) ELSE MOk(JNull) >>)

MarshalHeader(n) ==
  marshalUnion(<< MarshalConst(constHeader), MarshalFields(fieldsHeader, n.f),
                  MarshalMapOfAnything(n.ext) >>)

MarshalLink(n) ==
  marshalUnion(<< MarshalFields(fieldsLink, n.f), MarshalMapOfAnything(n.ext) >>)

MarshalAPIKeySecurityScheme(n) ==
  marshalUnion(<< MarshalConst(constAPIKeySecurityScheme),
                  MarshalFields(fieldsAPIKeySecurityScheme, n.f),
                  MarshalMapOfAnything(n.ext) >>)

MarshalBearer(n) == marshalUnion(<< MarshalConst(constBearer) >>)

\* Variant: an encoder that merges the constant after the own fields.
MarshalHTTPFieldsFirst(n) ==
  marshalUnion(<< MarshalFields(fieldsHTTPSecurityScheme, n.f),
                  MarshalConst(constHTTPSecurityScheme),
                  MarshalMapOfAnything(n.ext),
                  MarshalPtr(n.Bearer, MarshalBearer(n.Bearer)),
                  MarshalPtr(n.NonBearer, MarshalFields(fieldsNonBearer, n.NonBearer.f)) >>)

MarshalHTTPSecurityScheme(n) ==
  marshalUnion(<< MarshalConst(constHTTPSecurityScheme),
                  MarshalFields(fieldsHTTPSecurityScheme, n.f),
                  MarshalMapOfAnything(n.ext),
                  MarshalPtr(n.Bearer, MarshalBearer(n.Bearer)),
                  MarshalPtr(n.NonBearer, MarshalFields(fieldsNonBearer, n.NonBearer.f)) >>)

MarshalOAuth2SecurityScheme(n) ==
  marshalUnion(<< MarshalConst(constOAuth2SecurityScheme),
                  MarshalFields(fieldsOAuth2SecurityScheme, n.f),
                  MarshalMapOfAnything(n.ext) >>)

MarshalOpenIDConnectSecurityScheme(n) ==
  marshalUnion(<< MarshalConst(constOpenIDConnectSecurityScheme),
                  MarshalFields(fieldsOpenIDConnectSecurityScheme, n.f),
                  MarshalMapOfAnything(n.ext) >>)

MarshalSecurityScheme(n) ==
  marshalUnion(<< MarshalPtr(n.APIKeySecurityScheme, MarshalAPIKeySecurityScheme(n.APIKeySecurityScheme)),
                  MarshalPtr(n.HTTPSecurityScheme, MarshalHTTPSecurityScheme(n.HTTPSecurityScheme)),
                  MarshalPtr(n.OAuth2SecurityScheme, MarshalOAuth2SecurityScheme(n.OAuth2SecurityScheme)),
                  MarshalPtr(n.OpenIDConnectSecurityScheme, MarshalOpenIDConnectSecurityScheme(n.OpenIDConnectSecurityScheme)) >>)

(***************************************************************************)
(* The node types under test and json.Unmarshal / json.Marshal on them     *)
(***************************************************************************)
Types ==
  { "Parameter", "Header", "Discriminator", "Link", "SchemaXORContent",
    "ParameterLocation", "PathParameter", "APIKeySecurityScheme",
    "HTTPSecurityScheme", "SecurityScheme", "SchemaOrRef" }

\* var n T
Zero(t) ==
  CASE t = "Parameter" -> ZeroParameter
    [] t = "Header" -> ZeroVal(fieldsHeader)
    [] t = "Discriminator" -> ZeroVal(fieldsDiscriminator)
    [] t = "Link" -> ZeroVal(fieldsLink)
    [] t = "SchemaXORContent" -> ZeroSchemaXORContent
    [] t = "ParameterLocation" -> ZeroParameterLocation
    [] t = "PathParameter" -> ZeroVal(fieldsPathParameter)
    [] t = "APIKeySecurityScheme" -> ZeroVal(fieldsAPIKeySecurityScheme)
    [] t = "HTTPSecurityScheme" -> ZeroHTTPSecurityScheme
    [] t = "SecurityScheme" -> ZeroSecurityScheme
    [] t = "SchemaOrRef" -> ZeroSchemaOrRef

\* json.Unmarshal(data, &n) for an object payload: n.UnmarshalJSON(data).
Unmarshal(t, n, p) ==
  CASE t = "Parameter" -> UnmarshalParameter(n, p)
    [] t = "Header" -> UnmarshalHeader(n, p)
    [] t = "Discriminator" -> UnmarshalDiscriminator(n, p)
    [] t = "Link" -> UnmarshalLink(n, p)
    [] t = "SchemaXORContent" -> UnmarshalSchemaXORContent(n, p)
    [] t = "ParameterLocation" -> UnmarshalParameterLocation(n, p)
    [] t = "PathParameter" -> UnmarshalPathParameter(n, p)
    [] t = "APIKeySecurityScheme" -> UnmarshalAPIKeySecurityScheme(n, p)
    [] t = "HTTPSecurityScheme" -> UnmarshalHTTPSecurityScheme(n, p)
    [] t = "SecurityScheme" -> UnmarshalSecurityScheme(n, p)
    [] t = "SchemaOrRef" -> UnmarshalSchemaOrRef(n, p)

\* json.Marshal(n): n.MarshalJSON(), or the struct encoding without one.
Marshal(t, n) ==
  CASE t = "Parameter" -> MarshalParameter(n)
    [] t = "Header" -> MarshalHeader(n)
    [] t = "Discriminator" -> MarshalDiscriminator(n)
    [] t = "Link" -> MarshalLink(n)
    [] t = "SchemaXORContent" -> MarshalSchemaXORContent(n)
    [] t = "ParameterLocation" -> MarshalParameterLocation(n)
    [] t = "PathParameter" -> MarshalPathParameter(n)
    [] t = "APIKeySecurityScheme" -> MarshalAPIKeySecurityScheme(n)
    [] t = "HTTPSecurityScheme" -> MarshalHTTPSecurityScheme(n)
    [] t = "SecurityScheme" -> MarshalSecurityScheme(n)
    [] t = "SchemaOrRef" -> MarshalSchemaOrRef(n)

\* requireKeysT, for the types that declare one.
requireKeys(t) ==
  CASE t = "Parameter" -> requireKeysParameter
    [] t = "Discriminator" -> requireKeysDiscriminator
    [] t = "PathParameter" -> requireKeysPathParameter
    [] t = "APIKeySecurityScheme" -> requireKeysAPIKeySecurityScheme
    [] t = "HTTPSecurityScheme" -> requireKeysHTTPSecurityScheme
    [] OTHER -> << >>

\* knownKeysT of the types whose decoder ends with the
\* additional-properties check; the other types have no such check.
ChecksAdditional ==
  { "Parameter", "Header", "Link", "APIKeySecurityScheme", "HTTPSecurityScheme" }

knownKeys(t) ==
  CASE t = "Parameter" -> knownKeysParameter
    [] t = "Header" -> knownKeysHeader
    [] t = "Link" -> knownKeysLink
    [] t = "APIKeySecurityScheme" -> knownKeysAPIKeySecurityScheme
    [] t = "HTTPSecurityScheme" -> knownKeysHTTPSecurityScheme
    [] OTHER -> {}

\* constT of the constant-tagged types.
consts(t) ==
  CASE t = "Header" -> constHeader
    [] t = "PathParameter" -> constPathParameter
    [] t = "QueryParameter" -> constQueryParameter
    [] t = "HeaderParameter" -> constHeaderParameter
    [] t = "CookieParameter" -> constCookieParameter
    [] t = "Bearer" -> constBearer
    [] t = "APIKeySecurityScheme" -> constAPIKeySecurityScheme
    [] t = "HTTPSecurityScheme" -> constHTTPSecurityScheme
    [] OTHER -> << >>

\* The marshalT fields of the types decoded as one struct.
fields(t) ==
  CASE t = "Parameter" -> fieldsParameter
    [] t = "Header" -> fieldsHeader
    [] t = "Discriminator" -> fieldsDiscriminator
    [] t = "Link" -> fieldsLink
    [] t = "PathParameter" -> fieldsPathParameter
    [] t = "APIKeySecurityScheme" -> fieldsAPIKeySecurityScheme
    [] t = "HTTPSecurityScheme" -> fieldsHTTPSecurityScheme
    [] OTHER -> << >>

(***************************************************************************)
(* Inputs: the keys and raw values payloads are built from, per type       *)
(***************************************************************************)
KV(key, vals) == { <<key, v>> : v \in vals }

Universe(t) ==
  CASE t = "Parameter" ->
         KV("name", { "\"id\"", "null" })
         \cup KV("in", { "\"path\"", "\"query\"", "\"header\"", "\"cookie\"",
                        "\"body\"" })
         \cup KV("required", { "true", "false" })
         \cup KV("style", { "\"simple\"", "\"form\"" })
         \cup KV("schema", { "{}", "null", "{\"type\":\"string\"}" })
         \cup KV("content", { "{\"a\":{}}", "{}" })
         \cup KV("description", { "null" })
         \cup KV("example", { "null", "1" })
         \cup KV("x-a", { "1" }) \cup KV("bogus", { "1" })
    [] t = "Header" ->
         KV("description", { "\"d\"", "null" }) \cup KV("required", { "false" })
         \cup KV("schema", { "{}" }) \cup KV("content", { "{}", "{\"a\":{}}" })
         \cup KV("example", { "null", "1" })
         \cup KV("style", { "\"simple\"", "\"form\"" })
         \cup KV("x-a", { "1", "1.0", "9007199254740993" })
         \cup KV("bogus", { "1" }) \cup KV("other", { "1" })
    [] t = "Discriminator" ->
         KV("propertyName", { "\"id\"", "null", "1" })
         \cup KV("mapping", { "{\"a\":\"b\"}", "{}", "null" })
         \cup KV("x-a", { "1" }) \cup KV("bogus", { "1" })
    [] t = "Link" ->
         KV("operationId", { "\"id\"", "null" }) \cup KV("operationRef", { "\"#/a\"" })
         \cup KV("requestBody", { "null", "1" }) \cup KV("description", { "\"d\"" })
         \cup KV("x-a", { "1" }) \cup KV("bogus", { "1" }) \cup KV("other", { "1" })
    [] t = "SchemaXORContent" ->
         KV("schema", { "{}", "null" }) \cup KV("content", { "{\"a\":{}}", "null" })
         \cup KV("bogus", { "1" })
    [] t = "ParameterLocation" ->
         KV("in", { "\"path\"", "\"query\"", "\"header\"", "\"cookie\"", "\"body\"" })
         \cup KV("required", { "true", "false" })
         \cup KV("style", { "\"simple\"", "\"form\"", "\"matrix\"" })
         \cup KV("name", { "\"id\"" })
    [] t = "PathParameter" ->
         KV("in", { "\"path\"", "\"query\"" }) \cup KV("required", { "true", "false" })
         \cup KV("style", { "\"simple\"", "\"form\"" }) \cup KV("bogus", { "1" })
    [] t = "APIKeySecurityScheme" ->
         KV("type", { "\"apiKey\"", "\"http\"" }) \cup KV("name", { "\"id\"" })
         \cup KV("in", { "\"header\"", "\"query\"", "\"path\"" })
         \cup KV("description", { "\"d\"", "null" })
         \cup KV("x-a", { "1" }) \cup KV("bogus", { "1" })
    [] t = "HTTPSecurityScheme" ->
         KV("type", { "\"http\"", "\"apiKey\"" })
         \cup KV("scheme", { "\"bearer\"", "\"basic\"", "null" })
         \cup KV("bearerFormat", { "\"JWT\"" }) \cup KV("description", { "\"d\"" })
         \cup KV("x-a", { "1" }) \cup KV("bogus", { "1" })
    [] t = "SecurityScheme" ->
         KV("type", { "\"apiKey\"", "\"http\"", "\"oauth2\"", "\"openIdConnect\"" })
         \cup KV("name", { "\"id\"" }) \cup KV("in", { "\"header\"" })
         \cup KV("scheme", { "\"bearer\"", "\"basic\"" })
         \cup KV("bearerFormat", { "\"JWT\"" }) \cup KV("flows", { "{}" })
         \cup KV("openIdConnectUrl", { "\"u\"" })
         \cup KV("x-a", { "1" }) \cup KV("bogus", { "1" })
    [] t = "SchemaOrRef" ->
         KV("title", { "\"d\"" }) \cup KV("type", { "\"string\"" })
         \cup KV("$ref", { "\"#/a\"" }) \cup KV("default", { "null", "1" })
         \cup KV("x-a", { "1" }) \cup KV("bogus", { "1" })

\* A payload a receiver was populated from by an earlier, successful decode.
PriorPayload(t) ==
  CASE t = "Parameter" ->
         LastWins(<< <<"name", "\"id\"">>, <<"in", "\"query\"">>,
                     <<"content", "{\"a\":{}}">>, <<"x-b", "1">> >>)
    [] t = "Header" ->
         LastWins(<< <<"description", "\"d\"">>, <<"example", "1">>,
                     <<"x-b", "1">> >>)
    [] t = "Discriminator" ->
         LastWins(<< <<"propertyName", "\"id\"">>, <<"mapping", "{\"a\":\"b\"}">> >>)
    [] t = "Link" -> LastWins(<< <<"operationRef", "\"#/a\"">>, <<"x-b", "1">> >>)
    [] t = "SchemaXORContent" -> LastWins(<< <<"content", "{\"a\":{}}">> >>)
    [] t = "ParameterLocation" ->
         LastWins(<< <<"in", "\"query\"">>, <<"style", "\"form\"">> >>)
    [] t = "PathParameter" ->
         LastWins(<< <<"in", "\"path\"">>, <<"required", "true">>,
                     <<"style", "\"matrix\"">> >>)
    [] t = "APIKeySecurityScheme" ->
         LastWins(<< <<"type", "\"apiKey\"">>, <<"name", "\"id\"">>,
                     <<"in", "\"cookie\"">>, <<"x-b", "1">> >>)
    [] t = "HTTPSecurityScheme" ->
         LastWins(<< <<"type", "\"http\"">>, <<"scheme", "\"basic\"">>,
                     <<"x-b", "1">> >>)
    [] t = "SecurityScheme" ->
         LastWins(<< <<"type", "\"apiKey\"">>, <<"name", "\"id\"">>,
                     <<"in", "\"cookie\"">> >>)
    [] t = "SchemaOrRef" -> LastWins(<< <<"$ref", "\"#/a\"">> >>)

\* The receivers decode is called on: a fresh node, or one an earlier
\* decode populated.
Receivers(t) == { Zero(t), Unmarshal(t, Zero(t), PriorPayload(t)).node }

(***************************************************************************)
(* Construction in memory: the With* setters                               *)
(***************************************************************************)
\* WithX(val) on a field; WithMapOfAnythingItem(key, val); WithArm(val) on
\* the pointer of a oneOf arm; WithLocation(val) on a Parameter.
SetField(key, val) == [op |-> "field", key |-> key, val |-> val]
SetItem(key, val) == [op |-> "item", key |-> key, val |-> val]
SetArm(key, val) == [op |-> "arm", key |-> key, val |-> val]
SetLocation(val) == [op |-> "location", key |-> "Location", val |-> val]

\* The calls the model makes, per type.  A Go caller may pass any string
\* where an enum is expected, and any key to WithMapOfAnythingItem.
Setters(t) ==
  CASE t = "Parameter" ->
         { SetField("name", "\"id\""), SetField("in", "\"query\""),
           SetField("style", "\"matrix\""), SetItem("x-a", "1"),
           SetLocation([ZeroParameterLocation EXCEPT
                          !.PathParameter = ZeroVal(fieldsPathParameter)]),
           SetLocation([ZeroParameterLocation EXCEPT
                          !.HeaderParameter = ZeroVal(<<>>)]) }
    [] t = "Header" ->
         { SetField("description", "\"d\""), SetField("required", "false"),
           SetItem("x-a", "1"), SetItem("style", "\"form\"") }
    [] t = "Discriminator" ->
         { SetField("propertyName", "\"id\""), SetField("mapping", "{}"),
           SetField("mapping", "{\"a\":\"b\"}") }
    [] t = "Link" ->
         { SetField("operationId", "\"id\""), SetField("operationRef", "\"#/a\""),
           SetItem("x-a", "1") }
    [] t = "SchemaXORContent" ->
         { SetArm("HasSchema", ZeroVal(fieldsHasSchema)),
           SetArm("HasContent", ZeroVal(fieldsHasContent)) }
    [] t = "ParameterLocation" ->
         { SetArm("PathParameter", ZeroVal(fieldsPathParameter)),
           SetArm("PathParameter",
                  Val([style |-> "\"form\""], NoExt)),
           SetArm("QueryParameter", ZeroVal(fieldsQueryParameter)),
           SetArm("HeaderParameter", ZeroVal(<<>>)),
           SetArm("CookieParameter", ZeroVal(<<>>)) }
    [] t = "PathParameter" ->
         { SetField("style", "\"simple\""), SetField("style", "\"form\"") }
    [] t = "APIKeySecurityScheme" ->
         { SetField("name", "\"id\""), SetField("in", "\"header\""),
           SetField("in", "\"path\""), SetItem("x-a", "1"),
           SetItem("type", "\"http\"") }
    [] t = "HTTPSecurityScheme" ->
         { SetField("scheme", "\"basic\""), SetField("scheme", "\"bearer\""),
           SetArm("Bearer", ZeroVal(<<>>)),
           SetArm("NonBearer", ZeroVal(fieldsNonBearer)),
           SetArm("NonBearer", Val([scheme |-> "\"basic\""], NoExt)),
           SetItem("x-a", "1"), SetItem("type", "\"apiKey\"") }
    [] t = "SecurityScheme" ->
         { SetArm("APIKeySecurityScheme", ZeroVal(fieldsAPIKeySecurityScheme)),
           SetArm("HTTPSecurityScheme", ZeroHTTPSecurityScheme),
           SetArm("HTTPSecurityScheme",
                  [ZeroHTTPSecurityScheme EXCEPT !.Bearer = ZeroVal(<<>>)]),
           SetArm("OAuth2SecurityScheme", ZeroVal(fieldsOAuth2SecurityScheme)) }
    [] t = "SchemaOrRef" ->
         { SetArm("Schema", ZeroVal(fieldsSchema)),
           SetArm("SchemaReference", ZeroVal(fieldsSchemaReference)) }

\* The node after the call.
Apply(n, s) ==
  CASE s.op = "field" -> [n EXCEPT !.f[s.key] = s.val]
    [] s.op = "item" ->
         [n EXCEPT !.ext = [k \in DOMAIN @ \cup {s.key} |->
                              IF k = s.key THEN s.val ELSE @[k]]]
    [] s.op = "arm" -> [n EXCEPT ![s.key] = s.val]
    [] s.op = "location" -> [n EXCEPT !.locSet = TRUE, !.loc = s.val]

(***************************************************************************)
(* The state machine: a caller builds a payload key by key or a node call  *)
(* by call, then decodes, encodes, decodes the encoding again, or decodes  *)
(* the payload with one key removed.                                       *)
(***************************************************************************)
EmptyPayload == [k \in {} |-> "null"]
Idle == Ret(NoErr, Nil)
NoAlt == [key |-> "", r |-> Idle]

(***************************************************************************)
(* Nodes with several pattern buckets                                      *)
(***************************************************************************)
\* Variant: a first pattern that matches every key.
regexAnyKey(key) == TRUE

\* The compiled key patterns, over the key vocabulary of the model.
regexGetPutPostDeleteOptionsHeadPatchTrace(key) == key \in { "get", "put" }
regex15D2XX(key) == key \in { "200", "2XX" }
regex(key) == key \in { "/a", "/b" }
\* ^[a-zA-Z0-9\.\-_]+$ : of the keys of the model, those without a slash.
regexAZAZ09(key) ==
  key \in { "get", "put", "200", "2XX", "x-a", "x-b", "summary", "default", "bogus" }

BucketTypes == { "PathItem", "Responses", "Paths", "Callback", "ComponentsSchemas" }

\* The frame of one decode of such a node: the keys the range loop has not
\* visited yet, the keys still in rawMap, and the bucket maps.
NoBuckets == [first |-> NoExt, x |-> NoExt, rest |-> NoExt]
NoScan ==
  [ at |-> "idle", typ |-> "PathItem", data |-> EmptyPayload, todo |-> {},
    rawMap |-> EmptyPayload, buckets |-> NoBuckets, err |-> NoErr ]

(***************************************************************************)
(* Package-level state, and the calls that run side by side               *)
(***************************************************************************)
\* The number of goroutines that call into the package at once.
NumCalls == 2
Calls == 1 .. NumCalls

\* The node types the concurrent calls work on.
ConcTypes == { "Header", "APIKeySecurityScheme" }

\* The package-level variables: the key tables, the constant fragments and
\* the compiled key pattern, as the package initialises them.
PackageTables ==
  [ knownKeys |-> [t \in ConcTypes |-> knownKeys(t)],
    requireKeys |-> [t \in ConcTypes |-> requireKeys(t)],
    consts |-> [t \in ConcTypes |-> consts(t)],
    regexX |-> "^x-" ]

\* regexX.MatchString(key) on a compiled pattern.
MatchString(re, key) == re = "^x-" /\ regexX(key)

\* The frame of one call: its arguments, its position and its locals.
NoCall ==
  [ op |-> "none", at |-> "idle", typ |-> "Header", data |-> EmptyPayload,
    node |-> Nil, mt |-> NoExt, rawMap |-> EmptyPayload, frag |-> MOk(JNull),
    ret |-> Idle, out |-> MOk(JNull) ]

Init ==
  /\ tables = PackageTables
  /\ calls = [c \in Calls |-> NoCall]
  /\ args = << >>
  /\ merged = << >>
  /\ scan = NoScan
  /\ typ \in Types
  /\ data = EmptyPayload
  /\ recv = Zero(typ)
  /\ pc = "new"
  /\ res = Idle
  /\ out = MOk(JNull)
  /\ res2 = Idle
  /\ alt = NoAlt

\* One more key of the payload.
Put(kv) ==
  /\ pc = "new"
  /\ recv = Zero(typ)
  /\ kv[1] \notin DOMAIN data
  /\ Cardinality(DOMAIN data) < MaxKeys
  /\ data' = [k \in DOMAIN data \cup {kv[1]} |-> IF k = kv[1] THEN kv[2] ELSE data[k]]
  /\ UNCHANGED <<typ, recv, pc, res, out, res2, alt, tables, calls, args, merged, scan>>

\* One setter call on the node under construction.
With(s) ==
  /\ pc = "new"
  /\ data = EmptyPayload
  /\ recv' = Apply(recv, s)
  /\ recv' # recv
  /\ UNCHANGED <<typ, data, pc, res, out, res2, alt, tables, calls, args, merged, scan>>

\* err := json.Unmarshal(data, &r)
Decode(r) ==
  /\ pc = "new"
  /\ recv = Zero(typ)
  /\ recv' = r
  /\ res' = Unmarshal(typ, r, data)
  /\ pc' = "decoded"
  /\ UNCHANGED <<typ, data, out, res2, alt, tables, calls, args, merged, scan>>

\* out, err := json.Marshal(n) on the node a decode produced.
Encode ==
  /\ pc = "decoded"
  /\ res.err = NoErr
  /\ out' = Marshal(typ, res.node)
  /\ pc' = "encoded"
  /\ UNCHANGED <<typ, data, recv, res, res2, alt, tables, calls, args, merged, scan>>

\* json.Unmarshal(out, &fresh).  Where out writes a key twice, the model's
\* encoders write the same value both times or a scalar, so the decoders
\* see the last occurrence.
Redecode ==
  /\ pc = "encoded"
  /\ ~out.err
  /\ out.j.obj
  /\ res2' = Unmarshal(typ, Zero(typ), LastWins(out.j.pairs))
  /\ pc' = "redecoded"
  /\ UNCHANGED <<typ, data, recv, res, out, alt, tables, calls, args, merged, scan>>

\* The payload of a successful decode, decoded again with key k removed.
DecodeWithout(k) ==
  /\ pc = "decoded"
  /\ res.err = NoErr
  /\ k \in DOMAIN data
  /\ alt' = [key |-> k,
             r |-> Unmarshal(typ, recv, [x \in DOMAIN data \ {k} |-> data[x]])]
  /\ pc' = "dropped"
  /\ UNCHANGED <<typ, data, recv, res, out, res2, tables, calls, args, merged, scan>>

\* out, err := json.Marshal(n) on the node built with setters.
MarshalNode ==
  /\ pc = "new"
  /\ data = EmptyPayload
  /\ out' = Marshal(typ, recv)
  /\ pc' = "marshalled"
  /\ UNCHANGED <<typ, data, recv, res, res2, alt, tables, calls, args, merged, scan>>

Next ==
  \/ \E kv \in Universe(typ) : Put(kv)
  \/ \E s \in Setters(typ) : With(s)
  \/ \E r \in Receivers(typ) : Decode(r)
  \/ Encode
  \/ Redecode
  \/ \E k \in DOMAIN data : DecodeWithout(k)
  \/ MarshalNode

Spec == Init /\ [][Next]_vars

(***************************************************************************)
(* Concurrent calls: each goroutine runs one UnmarshalJSON or MarshalJSON  *)
(* on a node and payload of its own, one statement group at a time; the    *)
(* package-level tables are all they share.                                *)
(***************************************************************************)
seqVars == <<typ, data, recv, pc, res, out, res2, alt, args, merged, scan>>

\* The payloads the concurrent decodes are given.
ConcPayloads(t) ==
  IF t = "Header"
    THEN { EmptyPayload,
           LastWins(<< <<"style", "\"simple\"">>, <<"x-a", "1">> >>),
           LastWins(<< <<"style", "\"form\"">> >>),
           LastWins(<< <<"example", "null">>, <<"bogus", "1">> >>),
           LastWins(<< <<"required", "1">> >>) }
    ELSE { LastWins(<< <<"type", "\"apiKey\"">>, <<"name", "\"id\"">>,
                       <<"in", "\"header\"">>, <<"x-a", "1">> >>),
           LastWins(<< <<"name", "\"id\"">>, <<"in", "\"header\"">> >>),
           LastWins(<< <<"type", "\"http\"">>, <<"name", "\"id\"">>,
                       <<"in", "\"header\"">> >>),
           LastWins(<< <<"type", "\"apiKey\"">>, <<"name", "\"id\"">>,
                       <<"in", "\"query\"">>, <<"bogus", "1">> >>) }

\* The nodes the concurrent encodes are given: what decoding left behind.
ConcNodes(t) == { Unmarshal(t, Zero(t), p).node : p \in ConcPayloads(t) }

\* One call moves on; the other calls and the tables stay as they are.
Step(c, frame) ==
  /\ calls' = [calls EXCEPT ![c] = frame]
  /\ UNCHANGED <<tables, seqVars>>

\* A goroutine calls json.Unmarshal(data, &n) on a fresh node.
CallUnmarshal(c, t, p) ==
  /\ calls[c].at = "idle"
  /\ Step(c, [NoCall EXCEPT !.op = "decode", !.at = "struct", !.typ = t,
                            !.data = p, !.node = Zero(t)])

\* `mt := marshalT(*t); err = json.Unmarshal(data, &mt)`, then
\* `json.Unmarshal(data, &rawMap)`.
StructDecode(c) ==
  LET f == calls[c]
      e == MalformedErr(fields(f.typ), f.data) IN
  /\ f.at = "struct"
  /\ Step(c, IF e # NoErr
               THEN [f EXCEPT !.at = "done", !.ret = Ret(e, f.node)]
               ELSE [f EXCEPT !.mt = StoreFields(fields(f.typ), f.node.f, f.data),
                              !.rawMap = f.data,
                              !.at = IF requireKeys(f.typ) = << >>
                                       THEN "const" ELSE "required"])

\* `for _, key := range requireKeysT`, reading the package-level table.
RangeRequireKeys(c) ==
  LET f == calls[c]
      e == RequiredErr(tables.requireKeys[f.typ], f.rawMap) IN
  /\ f.at = "required"
  /\ Step(c, IF e # NoErr
               THEN [f EXCEPT !.at = "done", !.ret = Ret(e, f.node)]
               ELSE [f EXCEPT !.at = "const"])

\* The constant checks against the literals in the decoder, the constant
\* keys deleted from rawMap, and the fix-up of a key present with null.
CheckConst(c) ==
  LET f == calls[c]
      e == ConstErr(consts(f.typ), f.rawMap)
      ck == { consts(f.typ)[i].key : i \in DOMAIN consts(f.typ) } IN
  /\ f.at = "const"
  /\ Step(c, IF e # NoErr
               THEN [f EXCEPT !.at = "done", !.ret = Ret(e, f.node)]
               ELSE [f EXCEPT
                       !.mt = TriState(IF f.typ = "Header" THEN {"example"} ELSE {},
                                       f.mt, f.rawMap),
                       !.rawMap = [k \in DOMAIN f.rawMap \ ck |-> f.rawMap[k]],
                       !.at = "known"])

\* Variant: a loop that consumes the package-level table it ranges over.
RangeKnownKeysConsuming(c) ==
  LET f == calls[c] IN
  /\ f.at = "known"
  /\ calls' = [calls EXCEPT ![c] =
       [f EXCEPT !.rawMap = [k \in DOMAIN f.rawMap \ tables.knownKeys[f.typ]
                               |-> f.rawMap[k]],
                 !.at = "bucket"]]
  /\ tables' = [tables EXCEPT !.knownKeys[f.typ] = {}]
  /\ UNCHANGED seqVars

\* `for _, key := range knownKeysT { delete(rawMap, key) }`, reading the
\* package-level table.
RangeKnownKeys(c) ==
  LET f == calls[c] IN
  /\ f.at = "known"
  /\ Step(c, [f EXCEPT !.rawMap = [k \in DOMAIN f.rawMap \ tables.knownKeys[f.typ]
                                     |-> f.rawMap[k]],
                       !.at = "bucket"])

\* The scan of the remaining keys with the package-level pattern, the
\* additional-properties check, and `*t = T(mt)`.
MatchRegexX(c) ==
  LET f == calls[c]
      hit == { k \in DOMAIN f.rawMap : MatchString(tables.regexX, k) }
      left == DOMAIN f.rawMap \ hit
      ext == [k \in DOMAIN f.node.ext \cup hit |->
                IF k \in hit THEN Interface(f.rawMap[k]) ELSE f.node.ext[k]] IN
  /\ f.at = "bucket"
  /\ Step(c, [f EXCEPT !.at = "done",
                       !.ret = IF left # {} THEN Ret(ErrAdditional(left), f.node)
                               ELSE Ret(NoErr, Val(f.mt, ext))])

\* A goroutine calls json.Marshal(n) on a node of its own.
CallMarshal(c, t, n) ==
  /\ calls[c].at = "idle"
  /\ Step(c, [NoCall EXCEPT !.op = "encode", !.at = "fragment", !.typ = t,
                            !.node = n])

\* json.Marshal of the package-level constT, the first fragment.
MarshalConstFragment(c) ==
  LET f == calls[c] IN
  /\ f.at = "fragment"
  /\ Step(c, [f EXCEPT !.frag = MarshalConst(tables.consts[f.typ]),
                       !.at = "union"])

\* The other fragments and the merge of marshalUnion.
UnionFragments(c) ==
  LET f == calls[c] IN
  /\ f.at = "union"
  /\ Step(c, [f EXCEPT !.out = marshalUnion(<< f.frag,
                                  MarshalFields(fields(f.typ), f.node.f),
                                  MarshalMapOfAnything(f.node.ext) >>),
                       !.at = "done"])

InitConc ==
  /\ tables = PackageTables
  /\ calls = [c \in Calls |-> NoCall]
  /\ args = << >>
  /\ merged = << >>
  /\ scan = NoScan
  /\ typ = "Header" /\ data = EmptyPayload /\ recv = Zero("Header")
  /\ pc = "new" /\ res = Idle /\ out = MOk(JNull) /\ res2 = Idle /\ alt = NoAlt

NextConc ==
  \/ \E c \in Calls, t \in ConcTypes : \E p \in ConcPayloads(t) : CallUnmarshal(c, t, p)
  \/ \E c \in Calls : StructDecode(c)
  \/ \E c \in Calls : RangeRequireKeys(c)
  \/ \E c \in Calls : CheckConst(c)
  \/ \E c \in Calls : RangeKnownKeys(c)
  \/ \E c \in Calls : MatchRegexX(c)
  \/ \E c \in Calls, t \in ConcTypes : \E n \in ConcNodes(t) : CallMarshal(c, t, n)
  \/ \E c \in Calls : MarshalConstFragment(c)
  \/ \E c \in Calls : UnionFragments(c)

SpecConc == InitConc /\ [][NextConc]_vars

(***************************************************************************)
(* marshalUnion on its own: a caller hands it a list of values, and one    *)
(* caller, SchemaAdditionalProperties, hands it a scalar.                  *)
(***************************************************************************)
\* The longest argument list of a call.
MaxFrags == 3

\* What json.Marshal makes of the values handed to marshalUnion: null, the
\* empty object, objects that share a key, scalars of one and of more
\* bytes, and a value whose MarshalJSON fails.
Fragments ==
  { MOk(JNull), MOk(Obj(<< >>)),
    MOk(Obj(<< <<"a", "1">> >>)), MOk(Obj(<< <<"a", "2">>, <<"b", "1">> >>)),
    MOk(Scalar("true")), MOk(Scalar("false")), MOk(Scalar("1")), MErr }

\* The values of a SchemaAdditionalProperties: each arm nil or set.
AdditionalPropertiesNodes ==
  [ SchemaOrRef : { Nil } \cup
      { [set |-> TRUE, v |-> UnmarshalSchemaOrRef(ZeroSchemaOrRef, p).node] :
          p \in { EmptyPayload, LastWins(<< <<"type", "\"string\"">> >>) } },
    Bool : { ABSENT, "true", "false" } ]

\* `marshalUnion(s.SchemaOrRef, s.Bool)`: the arguments as json.Marshal
\* encodes them, a nil pointer as null.
FragmentsSchemaAdditionalProperties(n) ==
  << IF n.SchemaOrRef.set THEN MarshalSchemaOrRef(n.SchemaOrRef.v) ELSE MOk(JNull),
     IF n.Bool = ABSENT THEN MOk(JNull) ELSE MOk(Scalar(n.Bool)) >>

MarshalSchemaAdditionalProperties(n) ==
  marshalUnion(FragmentsSchemaAdditionalProperties(n))

\* One more value in the argument list of the call.
AddFragment(m) ==
  /\ merged = << >>
  /\ Len(args) < MaxFrags
  /\ args' = Append(args, m)
  /\ UNCHANGED <<typ, data, recv, pc, res, out, res2, alt, tables, calls, merged, scan>>

\* result, err := marshalUnion(args...)
CallUnion ==
  /\ merged = << >>
  /\ merged' = << marshalUnion(args) >>
  /\ UNCHANGED <<typ, data, recv, pc, res, out, res2, alt, tables, calls, args, scan>>

\* json.Marshal(n) of a SchemaAdditionalProperties.
MarshalAdditionalProperties(n) ==
  /\ merged = << >>
  /\ args = << >>
  /\ args' = FragmentsSchemaAdditionalProperties(n)
  /\ merged' = << MarshalSchemaAdditionalProperties(n) >>
  /\ UNCHANGED <<typ, data, recv, pc, res, out, res2, alt, tables, calls, scan>>

InitUnion ==
  /\ args = << >>
  /\ merged = << >>
  /\ scan = NoScan
  /\ tables = PackageTables
  /\ calls = [c \in Calls |-> NoCall]
  /\ typ = "Header" /\ data = EmptyPayload /\ recv = Zero("Header")
  /\ pc = "new" /\ res = Idle /\ out = MOk(JNull) /\ res2 = Idle /\ alt = NoAlt

NextUnion ==
  \/ \E m \in Fragments : AddFragment(m)
  \/ CallUnion
  \/ \E n \in AdditionalPropertiesNodes : MarshalAdditionalProperties(n)

SpecUnion == InitUnion /\ [][NextUnion]_vars

(***************************************************************************)
(* The bucket scan, key by key: `for key, rawValue := range rawMap` visits *)
(* the keys of a Go map in an order that differs from run to run.          *)
(***************************************************************************)
\* The most keys a payload of these nodes holds.
MaxScanKeys == 3

\* knownKeysPathItem, knownKeysResponses; Paths and Callback have none.
knownKeysOf(t) ==
  CASE t = "PathItem" -> { "$ref", "summary", "description", "servers", "parameters" }
    [] t = "Responses" -> { "default" }
    [] OTHER -> {}

\* Whether json.Unmarshal(rawValue, &val) accepts v for the element type of
\* a bucket: an Operation wants the key responses, a ResponseOrRef here a
\* reference, a PathItem null or an object of known keys, a SchemaOrRef an
\* object one of its arms accepts, an interface{} anything.
AcceptsElement(elem, v) ==
  CASE elem = "Operation" -> v = "{\"responses\":{}}"
    [] elem = "ResponseOrRef" -> v = "{\"$ref\":\"#/a\"}"
    [] elem = "PathItem" -> v \in { "null", "{}", "{\"$ref\":\"#/a\"}" }
    [] elem = "SchemaOrRef" -> SchemaOrRefAccepts(v)
    [] OTHER -> TRUE

\* The predicates the first range loop tests for a key, in the order of
\* the code, each with the bucket it fills and the element type.
Pattern(bucket, elem) == [bucket |-> bucket, elem |-> elem]
PatternsOf(t) ==
  CASE t = "PathItem" -> << Pattern("first", "Operation"), Pattern("x", "any") >>
    [] t = "Responses" -> << Pattern("first", "ResponseOrRef"), Pattern("x", "any") >>
    [] t = "Paths" -> << Pattern("first", "PathItem"), Pattern("x", "any") >>
    [] t = "Callback" -> << Pattern("x", "any") >>
    [] t = "ComponentsSchemas" -> << Pattern("first", "SchemaOrRef") >>

MatchesPattern(t, pat, key) ==
  IF pat.bucket = "x" THEN regexX(key)
  ELSE CASE t = "PathItem" -> regexGetPutPostDeleteOptionsHeadPatchTrace(key)
         [] t = "Responses" -> regex15D2XX(key)
         [] t = "Paths" -> regex(key)
         [] t = "ComponentsSchemas" -> regexAZAZ09(key)
         [] OTHER -> FALSE

\* The keys and raw values of the payloads.
ScanUniverse ==
  KV("get", { "1", "{\"responses\":{}}" }) \cup KV("/a", { "1", "{}" })
  \cup KV("200", { "1", "{\"$ref\":\"#/a\"}" }) \cup KV("x-a", { "1", "{\"responses\":{}}" })
  \cup KV("x-b", { "1.0" }) \cup KV("summary", { "\"s\"", "1" })
  \cup KV("default", { "{\"$ref\":\"#/a\"}" }) \cup KV("bogus", { "{}" })

ScanStep(frame) ==
  /\ scan' = frame
  /\ UNCHANGED <<typ, data, recv, pc, res, out, res2, alt, tables, calls, args, merged>>

\* The node type of the call.
ScanType(t) ==
  /\ scan.at = "idle" /\ scan.data = EmptyPayload /\ scan.typ # t
  /\ ScanStep([scan EXCEPT !.typ = t])

\* One more key of the payload.
ScanPut(kv) ==
  /\ scan.at = "idle"
  /\ kv[1] \notin DOMAIN scan.data
  /\ Cardinality(DOMAIN scan.data) < MaxScanKeys
  /\ ScanStep([scan EXCEPT !.data =
       [k \in DOMAIN scan.data \cup {kv[1]} |-> IF k = kv[1] THEN kv[2] ELSE scan.data[k]]])

\* The head of UnmarshalJSON: the struct decode of the known fields (a
\* summary that is no string fails it), rawMap, and the known keys deleted.
ScanBegin ==
  LET p == scan.data
      left == DOMAIN p \ knownKeysOf(scan.typ) IN
  /\ scan.at = "idle"
  /\ ScanStep(IF scan.typ = "PathItem" /\ "summary" \in DOMAIN p /\ p["summary"] = "1"
                THEN [scan EXCEPT !.at = "done", !.err = ErrMalformed]
                ELSE [scan EXCEPT !.at = "scan", !.todo = left,
                                  !.rawMap = [k \in left |-> p[k]]])

\* One turn of the first range loop, on whichever key the map yields next:
\* every pattern is tested with an `if` of its own, a match decodes the
\* value into the pattern's bucket, and a matched key leaves rawMap.
ScanVisit(key) ==
  LET pats == PatternsOf(scan.typ)
      hit == { i \in DOMAIN pats : MatchesPattern(scan.typ, pats[i], key) }
      bad == { i \in hit : ~AcceptsElement(pats[i].elem, scan.rawMap[key]) }
      upTo == IF bad = {} THEN Len(pats) + 1
              ELSE CHOOSE i \in bad : \A j \in bad : i <= j
      stored == { pats[i].bucket : i \in { j \in hit : j < upTo } }
      put(b) == [k \in DOMAIN scan.buckets[b] \cup {key} |->
                   IF k = key
                     THEN IF b = "x" THEN Interface(scan.rawMap[key]) ELSE scan.rawMap[key]
                     ELSE scan.buckets[b][k]]
      bs == [b \in DOMAIN scan.buckets |->
               IF b \in stored THEN put(b) ELSE scan.buckets[b]] IN
  /\ scan.at = "scan"
  /\ key \in scan.todo
  /\ ScanStep(IF bad # {}
                THEN [scan EXCEPT !.at = "done", !.err = ErrMalformed, !.buckets = bs]
                ELSE [scan EXCEPT
                        !.buckets = bs, !.todo = scan.todo \ {key},
                        !.rawMap = IF hit = {} THEN scan.rawMap
                                   ELSE [k \in DOMAIN scan.rawMap \ {key} |-> scan.rawMap[k]]])

\* After the loop: a Callback decodes every key left into
\* AdditionalProperties, one key per turn; the other nodes reject a key
\* that is left.
ScanRest(key) ==
  /\ scan.at = "scan" /\ scan.todo = {} /\ scan.typ = "Callback"
  /\ key \in DOMAIN scan.rawMap
  /\ ScanStep(IF ~AcceptsElement("PathItem", scan.rawMap[key])
                THEN [scan EXCEPT !.at = "done", !.err = ErrMalformed]
                ELSE [scan EXCEPT
                        !.buckets.rest = [k \in DOMAIN scan.buckets.rest \cup {key} |->
                                            IF k = key THEN scan.rawMap[key]
                                            ELSE scan.buckets.rest[k]],
                        !.rawMap = [k \in DOMAIN scan.rawMap \ {key} |-> scan.rawMap[k]]])

\* Variant: a tail that reports the keys left in rawMap for every node.
ScanEndRejecting ==
  /\ scan.at = "scan" /\ scan.todo = {}
  /\ scan.typ = "Callback" => DOMAIN scan.rawMap = {}
  /\ ScanStep([scan EXCEPT !.at = "done",
                           !.err = IF DOMAIN scan.rawMap = {} THEN NoErr
                                   ELSE ErrAdditional(DOMAIN scan.rawMap)])

\* The tail of UnmarshalJSON: PathItem, Responses and Paths report the keys
\* left in rawMap; ComponentsSchemas returns nil whatever is left.
ScanEnd ==
  /\ scan.at = "scan" /\ scan.todo = {}
  /\ scan.typ = "Callback" => DOMAIN scan.rawMap = {}
  /\ ScanStep([scan EXCEPT !.at = "done",
                           !.err = IF DOMAIN scan.rawMap = {}
                                      \/ scan.typ = "ComponentsSchemas"
                                     THEN NoErr
                                     ELSE ErrAdditional(DOMAIN scan.rawMap)])

\* The keys of the scanned payloads in the sorted order json.Marshal writes
\* map keys.
ScanKeyOrder == << "/a", "200", "bogus", "default", "get", "summary", "x-a", "x-b" >>

\* The text of an encoded object of the nested vocabulary.
TextOf(j) ==
  IF j.pairs = << >> THEN "{}"
  ELSE CHOOSE v \in ObjectVals \ { "{}" } : ParseObject(v) = LastWins(j.pairs)

\* SchemaOrRef.MarshalJSON on the value a map entry was decoded to.
MarshalEntry(v) ==
  MarshalSchemaOrRef(UnmarshalSchemaOrRef(ZeroSchemaOrRef, ParseObject(v)).node)

\* ComponentsSchemas.MarshalJSON: marshalUnion(c.MapOfSchemaOrRefValues),
\* json.Marshal of the map calling MarshalJSON on every entry.
MarshalComponentsSchemas(m) ==
  LET ks == SelectSeq(ScanKeyOrder, LAMBDA k : k \in DOMAIN m) IN
  marshalUnion(<< IF DOMAIN m = {} THEN MOk(JNull)
                  ELSE IF \E k \in DOMAIN m : MarshalEntry(m[k]).err THEN MErr
                  ELSE MOk(Obj([i \in DOMAIN ks |->
                                 <<ks[i], TextOf(MarshalEntry(m[ks[i]]).j)>>])) >>)

\* out, err := json.Marshal(c) on the ComponentsSchemas a decode produced.
ScanMarshal ==
  /\ scan.at = "done" /\ scan.err = NoErr /\ scan.typ = "ComponentsSchemas"
  /\ out' = MarshalComponentsSchemas(scan.buckets.first)
  /\ scan' = [scan EXCEPT !.at = "encoded"]
  /\ UNCHANGED <<typ, data, recv, pc, res, res2, alt, tables, calls, args, merged>>

InitScan ==
  /\ scan = NoScan
  /\ args = << >>
  /\ merged = << >>
  /\ tables = PackageTables
  /\ calls = [c \in Calls |-> NoCall]
  /\ typ = "Header" /\ data = EmptyPayload /\ recv = Zero("Header")
  /\ pc = "new" /\ res = Idle /\ out = MOk(JNull) /\ res2 = Idle /\ alt = NoAlt

NextScan ==
  \/ \E t \in BucketTypes : ScanType(t)
  \/ \E kv \in ScanUniverse : ScanPut(kv)
  \/ ScanBegin
  \/ \E k \in scan.todo : ScanVisit(k)
  \/ \E k \in DOMAIN scan.rawMap : ScanRest(k)
  \/ ScanEnd
  \/ ScanMarshal

SpecScan == InitScan /\ [][NextScan]_vars

(***************************************************************************)
(* Properties                                                              *)
(***************************************************************************)
\* The encoding read as a key-to-value map, the last occurrence winning.
OutMap == LastWins(out.j.pairs)

\* A map field that is empty but not nil is left out by omitempty, and no
\* other fragment of the encoding writes its key.
EmptyMapDropped ==
  \E k \in FieldKeys(fields(typ)) :
    /\ FieldKind(fields(typ), k) \in { "mapMediaType", "mapString" }
    /\ res.node.f[k] = "{}"
    /\ k \notin DOMAIN OutMap

\* A key of a known field whose effective value in the encoding is not the
\* field's own encoding: a later fragment (a populated arm's constants)
\* wrote the key again.
FieldShadowed ==
  \E k \in FieldKeys(fields(typ)) \cap DOMAIN OutMap :
    OutMap[k] # EmitField(FieldKind(fields(typ), k), res.node.f[k])

ConstSet(cs) == { cs[i] : i \in DOMAIN cs }

ArmConsts(ptr, cs) == IF ptr.set THEN ConstSet(cs) ELSE {}

LocationConsts(n) ==
  ArmConsts(n.PathParameter, constPathParameter)
  \cup ArmConsts(n.QueryParameter, constQueryParameter)
  \cup ArmConsts(n.HeaderParameter, constHeaderParameter)
  \cup ArmConsts(n.CookieParameter, constCookieParameter)

ConstsOf(t, n) ==
  CASE t = "Parameter" -> IF n.locSet THEN LocationConsts(n.loc) ELSE {}
    [] t = "ParameterLocation" -> LocationConsts(n)
    [] t = "HTTPSecurityScheme" ->
         ConstSet(constHTTPSecurityScheme) \cup ArmConsts(n.Bearer, constBearer)
    [] OTHER -> ConstSet(consts(t))

\* The keys whose value a node holds as an interface{}: the keys of its
\* ^x- bucket and of its any-valued fields.
HeldAsInterface(t, k) ==
  \/ regexX(k)
  \/ k \in FieldKeys(fields(t)) /\ FieldKind(fields(t), k) \in { "any", "pany" }

\* The value of key k of payload p as the encoding of the decoded node
\* writes it.
Reencoded(t, p, k) == IF HeldAsInterface(t, k) THEN Interface(p[k]) ELSE p[k]

ArmNames(t) ==
  CASE t = "SchemaOrRef" -> { "Schema", "SchemaReference" }
    [] t = "SchemaXORContent" -> { "HasSchema", "HasContent" }
    [] t = "ParameterLocation" ->
         { "PathParameter", "QueryParameter", "HeaderParameter", "CookieParameter" }
    [] t = "SecurityScheme" ->
         { "APIKeySecurityScheme", "HTTPSecurityScheme", "OAuth2SecurityScheme",
           "OpenIDConnectSecurityScheme" }
    [] t = "HTTPSecurityScheme" -> { "Bearer", "NonBearer" }
    [] OTHER -> {}

ArmOutcome(arm, p) ==
  CASE arm = "Schema" -> UnmarshalSchema(ZeroVal(fieldsSchema), p)
    [] arm = "SchemaReference" ->
         UnmarshalSchemaReference(ZeroVal(fieldsSchemaReference), p)
    [] arm = "HasSchema" -> UnmarshalHasSchema(ZeroVal(fieldsHasSchema), p)
    [] arm = "HasContent" -> UnmarshalHasContent(ZeroVal(fieldsHasContent), p)
    [] arm = "PathParameter" -> UnmarshalPathParameter(ZeroVal(fieldsPathParameter), p)
    [] arm = "QueryParameter" ->
         UnmarshalQueryParameter(ZeroVal(fieldsQueryParameter), p)
    [] arm = "HeaderParameter" -> UnmarshalHeaderParameter(ZeroVal(<<>>), p)
    [] arm = "CookieParameter" -> UnmarshalCookieParameter(ZeroVal(<<>>), p)
    [] arm = "APIKeySecurityScheme" ->
         UnmarshalAPIKeySecurityScheme(ZeroVal(fieldsAPIKeySecurityScheme), p)
    [] arm = "HTTPSecurityScheme" ->
         UnmarshalHTTPSecurityScheme(ZeroHTTPSecurityScheme, p)
    [] arm = "OAuth2SecurityScheme" ->
         UnmarshalOAuth2SecurityScheme(ZeroVal(fieldsOAuth2SecurityScheme), p)
    [] arm = "OpenIDConnectSecurityScheme" ->
         UnmarshalOpenIDConnectSecurityScheme(
           ZeroVal(fieldsOpenIDConnectSecurityScheme), p)
    [] arm = "Bearer" -> UnmarshalBearer(ZeroVal(<<>>), p)
    [] arm = "NonBearer" -> UnmarshalNonBearer(ZeroVal(fieldsNonBearer), p)

\* The arms that accept a payload, and the arms a node has populated.
Accepting(t, p) == { a \in ArmNames(t) : ArmOutcome(a, p).err = NoErr }
Populated(t, n) == { a \in ArmNames(t) : n[a].set }

\* The oneOf nodes: their decoder is the trial of the arms and nothing else.
Unions == { "SchemaOrRef", "SchemaXORContent", "ParameterLocation", "SecurityScheme" }

SeqSet(q) == { q[i] : i \in DOMAIN q }
Without(p, k) == [x \in DOMAIN p \ {k} |-> p[x]]

\* C3: for a payload that decodes and a required key k of its
\* type, the payload without k fails with "required key missing: k".
C3_RequiredFieldMissing ==
  (pc = "dropped" /\ alt.key \in SeqSet(requireKeys(typ)))
    => alt.r.err = ErrRequired(alt.key)

\* The keys of a payload that are neither a known key of the type nor
\* matched by its ^x- bucket.
Unrecognized(t, p) ==
  { k \in DOMAIN p :
      /\ k \notin knownKeys(t) \cup FieldKeys(fields(t))
                  \cup { c.key : c \in ConstSet(consts(t)) }
      /\ ~(t \in ChecksAdditional /\ regexX(k)) }

StructTypes == ChecksAdditional \cup { "Discriminator", "PathParameter" }

\* C4 as stated, for the types decoded as one struct: a payload that is
\* valid but for its unrecognized keys fails, and the error lists them all.
C4_UnrecognizedKeys ==
  (/\ pc = "decoded" /\ typ \in StructTypes
   /\ Unrecognized(typ, data) # {}
   /\ Unmarshal(typ, recv, [k \in DOMAIN data \ Unrecognized(typ, data) |-> data[k]]).err
        = NoErr)
    => res.err = ErrAdditional(Unrecognized(typ, data))

\* C4, amended: the same, for the types whose decoder ends with the
\* additional-properties check (Discriminator, the oneOf nodes and their
\* struct{} arms have none and let such keys pass).
C4_UnrecognizedKeysAmended ==
  (/\ pc = "decoded" /\ typ \in ChecksAdditional
   /\ Unrecognized(typ, data) # {}
   /\ Unmarshal(typ, recv, [k \in DOMAIN data \ Unrecognized(typ, data) |-> data[k]]).err
        = NoErr)
    => res.err = ErrAdditional(Unrecognized(typ, data))

\* A payload with two unrecognized keys was rejected with both listed.
C4_Witness ==
  /\ pc = "decoded" /\ typ \in ChecksAdditional
  /\ res.err.kind = "additional"
  /\ Cardinality(res.err.keys) = 2
  /\ res.err.keys = Unrecognized(typ, data)

\* The payload matches the forbidden shape of SchemaXORContent.
Forbidden(t, p) == t = "SchemaXORContent" /\ { "schema", "content" } \subseteq DOMAIN p

ArmFailures(t, p) ==
  { ArmErr(a, ArmOutcome(a, p).err) : a \in ArmNames(t) \ Accepting(t, p) }

\* C6 as stated: an arity or not-constraint error of a variant node carries
\* the outcome of every arm: the failure of each rejecting arm, and the
\* number of accepting ones.
C6_VariantDiagnostics ==
  (/\ pc = "decoded" /\ typ \in Unions \cup { "HTTPSecurityScheme", "Link" }
   /\ res.err.kind \in { "oneOf", "not" })
    => /\ res.err.arms = ArmFailures(typ, data)
       /\ res.err.valid = Cardinality(Accepting(typ, data))

\* C6, amended: an arity error carries the number of accepting arms
\* and the failure of each rejecting arm; a not-constraint error carries
\* no arm's outcome.
C6_VariantDiagnosticsAmended ==
  (pc = "decoded" /\ typ \in Unions \cup { "HTTPSecurityScheme", "Link" }) =>
    /\ res.err.kind = "oneOf" =>
         /\ res.err.arms = ArmFailures(typ, data)
         /\ res.err.valid = Cardinality(Accepting(typ, data))
    /\ res.err.kind = "not" => res.err = ErrNot

\* A location rejected by all four arms, each with its failure.
C6_Witness ==
  /\ pc = "decoded" /\ typ = "ParameterLocation"
  /\ res.err.kind = "oneOf" /\ res.err.valid = 0
  /\ Cardinality(res.err.arms) = 4

\* C7: a payload with both schema and content fails against
\* SchemaXORContent and Parameter although HasSchema and HasContent each
\* accept it; with schema and without content SchemaXORContent accepts and
\* selects HasSchema, and so does a Parameter that decodes; Link fails
\* whenever both operationId and operationRef are present.
C7_ForbiddenCombination ==
  pc = "decoded" =>
    /\ (typ \in { "SchemaXORContent", "Parameter" }
        /\ { "schema", "content" } \subseteq DOMAIN data)
         => /\ res.err # NoErr
            /\ ArmOutcome("HasSchema", data).err = NoErr
            /\ ArmOutcome("HasContent", data).err = NoErr
    /\ (typ = "SchemaXORContent" /\ "schema" \in DOMAIN data
        /\ "content" \notin DOMAIN data)
         => res.err = NoErr /\ Populated(typ, res.node) = { "HasSchema" }
    /\ (typ = "Parameter" /\ "schema" \in DOMAIN data /\ "content" \notin DOMAIN data
        /\ res.err = NoErr)
         => Populated("SchemaXORContent", res.node.sxc) = { "HasSchema" }
    /\ (typ = "Link" /\ { "operationId", "operationRef" } \subseteq DOMAIN data)
         => res.err # NoErr

\* SchemaXORContent rejected a payload with both keys.
C7_Witness ==
  /\ pc = "decoded" /\ typ = "SchemaXORContent"
  /\ { "schema", "content" } \subseteq DOMAIN data
  /\ res.err = ErrNot

\* The types decoded as one constant-tagged struct.
ConstTagged == { "Header", "PathParameter", "APIKeySecurityScheme", "HTTPSecurityScheme" }

\* The constants of a type, by position, that a payload holds with a
\* value other than the literal.
Mismatched(t, p) ==
  { i \in DOMAIN consts(t) :
      consts(t)[i].key \in DOMAIN p /\ p[consts(t)[i].key] # consts(t)[i].lit }

\* C8 as stated: a payload that holds a constant key c with another value
\* is rejected with the mismatch error naming c, the literal and the value
\* received.
C8_ConstantMismatch ==
  (pc = "decoded" /\ typ \in ConstTagged) =>
    \A i \in Mismatched(typ, data) :
      res.err = ErrConst(consts(typ)[i].key, consts(typ)[i].lit,
                         data[consts(typ)[i].key])

\* C8, amended: such a payload is always rejected, and never with
\* the additional-properties error; the error is the mismatch error unless
\* an earlier check (struct decode, oneOf group, required keys) failed, and
\* a mismatch error names the first mismatching constant in declared order,
\* its literal and the value received.  {"in":"path","required":false}
\* against the path-parameter arm fails with the mismatch on "required".
C8_ConstantMismatchAmended ==
  (pc = "decoded" /\ typ \in ConstTagged /\ Mismatched(typ, data) # {}) =>
    LET i == CHOOSE i \in Mismatched(typ, data) :
               \A j \in Mismatched(typ, data) : i <= j
        c == consts(typ)[i]
    IN /\ res.err.kind \in { "malformed", "oneOf", "required", "const" }
       /\ res.err.kind = "const" => res.err = ErrConst(c.key, c.lit, data[c.key])
       /\ (typ = "PathParameter" /\ DOMAIN data = { "in", "required" }
           /\ data["in"] = "\"path\"" /\ data["required"] = "false")
            => res.err = ErrConst("required", "true", "false")

\* {"in":"path","required":false} was decoded against the path arm.
C8_Witness ==
  /\ pc = "decoded" /\ typ = "PathParameter"
  /\ DOMAIN data = { "in", "required" }
  /\ data["in"] = "\"path\"" /\ data["required"] = "false"
  /\ res.err.kind = "const"

\* C9 as stated: a payload that decodes still decodes with a constant key
\* removed, for the constant-tagged structs and, arm by arm, for the arms
\* of ParameterLocation and HTTPSecurityScheme.
C9_ConstantAbsent ==
  pc = "dropped" =>
    /\ (typ \in ConstTagged /\ alt.key \in { c.key : c \in ConstSet(consts(typ)) })
         => alt.r.err = NoErr
    /\ \A a \in Accepting(typ, data) :
         alt.key \in { c.key : c \in ConstSet(consts(a)) }
           => ArmOutcome(a, Without(data, alt.key)).err = NoErr

\* C9, amended: the same for every constant key that is not also
\* a required key of the type or arm; a constant key that is required
\* ("type" of the security schemes, "required" of the path arm) makes the
\* decode fail with "required key missing" when it is absent.
C9_ConstantAbsentAmended ==
  pc = "dropped" =>
    /\ (typ \in ConstTagged /\ alt.key \in { c.key : c \in ConstSet(consts(typ)) })
         => IF alt.key \in SeqSet(requireKeys(typ))
              THEN alt.r.err = ErrRequired(alt.key)
              ELSE alt.r.err = NoErr
    /\ \A a \in Accepting(typ, data) :
         alt.key \in { c.key : c \in ConstSet(consts(a)) }
           => IF alt.key \in SeqSet(requireKeys(a))
                THEN ArmOutcome(a, Without(data, alt.key)).err = ErrRequired(alt.key)
                ELSE ArmOutcome(a, Without(data, alt.key)).err = NoErr

\* A Header payload with style "simple" was decoded again without style.
C9_Witness ==
  /\ pc = "dropped" /\ typ = "Header" /\ alt.key = "style"
  /\ alt.r.err = NoErr

\* Something written after a constant writes its key again: an entry of
\* MapOfAnything under that key, or the Scheme of a populated NonBearer.
Overridden(t, n, c) ==
  \/ c.key \in DOMAIN n.ext
  \/ t = "HTTPSecurityScheme" /\ c.key = "scheme"
     /\ n.NonBearer.set /\ n.NonBearer.f.scheme # ABSENT

\* C10 as stated: a constant-tagged node, whatever its fields hold,
\* encodes to an object in which every constant key has its literal as
\* effective value.
C10_ConstantInjection ==
  (pc = "marshalled" /\ typ \in ConstTagged) =>
    /\ ~out.err /\ out.j.obj
    /\ \A c \in ConstsOf(typ, recv) :
         c.key \in DOMAIN OutMap /\ OutMap[c.key] = c.lit

\* C10, amended: whenever the encoding succeeds (it fails on an
\* enum field outside its set, as the In of a zero APIKeySecurityScheme),
\* it is an object that holds every constant key with its literal, and the
\* literal is the effective value unless MapOfAnything or a populated
\* NonBearer writes the key again; the Scheme field of an
\* HTTPSecurityScheme does not prevail over the Bearer arm.
C10_ConstantInjectionAmended ==
  (pc = "marshalled" /\ typ \in ConstTagged /\ ~out.err) =>
    /\ out.j.obj
    /\ \A c \in ConstsOf(typ, recv) :
         /\ \E i \in DOMAIN out.j.pairs : out.j.pairs[i] = <<c.key, c.lit>>
         /\ ~Overridden(typ, recv, c) => OutMap[c.key] = c.lit

\* An HTTPSecurityScheme with the Bearer arm and Scheme "basic" was encoded.
C10_Witness ==
  /\ pc = "marshalled" /\ typ = "HTTPSecurityScheme"
  /\ recv.Bearer.set /\ ~recv.NonBearer.set /\ recv.f.scheme = "\"basic\""
  /\ ~out.err /\ OutMap["scheme"] = "\"bearer\""

\* The location arms whose fixed "in" literal is the raw value v.
ArmsOfIn(v) ==
  { a \in ArmNames("ParameterLocation") : Const("in", v) \in ConstSet(consts(a)) }

\* The location of a decoded node: the node itself, or the Location of a
\* Parameter.
LocationOf(t, n) == IF t = "Parameter" THEN n.loc ELSE n

PathExample ==
  /\ DOMAIN data = { "in", "name", "required" }
  /\ data["in"] = "\"path\"" /\ data["name"] = "\"id\"" /\ data["required"] = "true"

\* C11 as stated: {"in":"path","name":"id","required":true} selects the
\* path arm and no other, and whenever a ParameterLocation or a Parameter
\* decodes, the one populated location arm is the arm whose "in" literal is
\* the payload's "in" value.
C11_LocationArm ==
  (pc = "decoded" /\ typ \in { "ParameterLocation", "Parameter" }) =>
    /\ (typ = "ParameterLocation" /\ PathExample) => res.err = NoErr
    /\ res.err = NoErr =>
         /\ "in" \in DOMAIN data
         /\ Populated("ParameterLocation", LocationOf(typ, res.node)) = ArmsOfIn(data["in"])

\* C11, amended: the same whenever the payload holds the key "in"; a
\* ParameterLocation payload without "in" can decode too, the arm being
\* chosen by its other keys, and then exactly one arm is populated.
C11_LocationArmAmended ==
  (pc = "decoded" /\ typ \in { "ParameterLocation", "Parameter" }) =>
    /\ (typ = "ParameterLocation" /\ PathExample) => res.err = NoErr
    /\ res.err = NoErr =>
         /\ Cardinality(Populated("ParameterLocation", LocationOf(typ, res.node))) = 1
         /\ "in" \in DOMAIN data =>
              Populated("ParameterLocation", LocationOf(typ, res.node))
                = ArmsOfIn(data["in"])
         /\ typ = "Parameter" => "in" \in DOMAIN data

\* The example payload was decoded and the path arm alone is populated.
C11_Witness ==
  /\ pc = "decoded" /\ typ = "ParameterLocation" /\ PathExample
  /\ res.err = NoErr
  /\ Populated(typ, res.node) = { "PathParameter" }

\* The types of the model with a nullable any-valued field, the struct that
\* holds it, and its keys.
TriTypes == { "Header", "Link", "Parameter", "SchemaOrRef" }

TriFields(t) == IF t = "SchemaOrRef" THEN fieldsSchema ELSE fields(t)

TriKeys(t) ==
  { k \in FieldKeys(TriFields(t)) : FieldKind(TriFields(t), k) = "pany" }

\* The fields of that struct in node n (for SchemaOrRef, of its Schema arm).
TriNode(t, n) ==
  IF t = "SchemaOrRef"
    THEN (IF n.Schema.set THEN n.Schema.f ELSE ZeroFields(fieldsSchema))
    ELSE n.f

\* What encode then decode into a fresh node do to the three states.
TriStateKept ==
  /\ pc = "encoded" =>
       /\ ~out.err /\ out.j.obj
       /\ \A k \in TriKeys(typ) :
            IF TriNode(typ, res.node)[k] = ABSENT THEN k \notin DOMAIN OutMap
            ELSE k \in DOMAIN OutMap /\ OutMap[k] = TriNode(typ, res.node)[k]
  /\ (pc = "redecoded" /\ res2.err = NoErr) =>
       \A k \in TriKeys(typ) :
         TriNode(typ, res2.node)[k] = TriNode(typ, res.node)[k]

\* C12 as stated: after a successful decode the field is nil for a key
\* absent, a pointer to nil for a key with null and the value for a key
\* with a value; encode writes no key, null and the value; the state
\* survives decode, encode, decode.
C12_TriState ==
  typ \in TriTypes =>
    /\ (pc = "decoded" /\ res.err = NoErr) =>
         \A k \in TriKeys(typ) :
           TriNode(typ, res.node)[k] =
             IF k \in DOMAIN data THEN Interface(data[k]) ELSE ABSENT
    /\ TriStateKept
    /\ pc = "redecoded" => res2.err = NoErr

\* C12, amended: a key with null gives the pointer to nil and a key with
\* a value the value, whatever the receiver held; an absent key leaves the
\* field as the receiver had it, which is nil for a fresh receiver.  Encode
\* writes no key, null and the value, and a decode of the encoding that
\* succeeds (it always does after a decode into a fresh receiver) gives
\* the same state.
C12_TriStateAmended ==
  typ \in TriTypes =>
    /\ (pc = "decoded" /\ res.err = NoErr) =>
         \A k \in TriKeys(typ) :
           TriNode(typ, res.node)[k] =
             IF k \in DOMAIN data THEN Interface(data[k]) ELSE TriNode(typ, recv)[k]
    /\ TriStateKept
    /\ (pc = "redecoded" /\ recv = Zero(typ)) => res2.err = NoErr

\* A Link whose requestBody is null went through decode, encode, decode and
\* still holds the pointer to nil.
C12_Witness ==
  /\ pc = "redecoded" /\ typ = "Link" /\ recv = Zero(typ)
  /\ "requestBody" \in DOMAIN data /\ data["requestBody"] = "null"
  /\ res.node.f["requestBody"] = "null"
  /\ OutMap["requestBody"] = "null"
  /\ res2.node.f["requestBody"] = "null"

\* The canonical text of a JSON value of the model: 1.0 and 1 are one
\* number; no precision is lost.
Canon(v) == IF v = "1.0" THEN "1" ELSE v

SameValue(a, b) == Canon(a) = Canon(b)

XKeys(p) == { k \in DOMAIN p : regexX(k) }

\* C13: for the types with a ^x- bucket, a successful decode stores each x-
\* key of the payload in MapOfAnything with the payload's value and in no
\* known field, and the encoding of the node holds exactly the x- keys of
\* the payload, each with the payload's value.
C13_Extensions ==
  typ \in ChecksAdditional =>
    /\ (pc = "decoded" /\ res.err = NoErr) =>
         \A k \in XKeys(data) :
           /\ k \in DOMAIN res.node.ext
           /\ SameValue(res.node.ext[k], data[k])
           /\ k \notin DOMAIN res.node.f
    /\ pc = "encoded" =>
         /\ ~out.err /\ out.j.obj
         /\ XKeys(OutMap) = XKeys(data)
         /\ \A k \in XKeys(data) : SameValue(OutMap[k], data[k])

\* The same for fresh receivers and numbers a float64 holds exactly.
C13_ExtensionsExact ==
  (recv = Zero(typ) /\ \A k \in XKeys(data) : SameValue(Interface(data[k]), data[k]))
    => C13_Extensions

\* A fresh Header was decoded from a payload whose extension is 2^53 + 1
\* and encoded: the extension came back as 2^53.
C13_Lossy ==
  /\ pc = "encoded" /\ typ = "Header" /\ recv = Zero(typ)
  /\ "x-a" \in DOMAIN data /\ data["x-a"] = "9007199254740993"
  /\ ~out.err /\ OutMap["x-a"] = "9007199254740992"

\* C14: the required-key check looks at presence only.  A required key that
\* is in the payload, whatever its value, never yields "required key
\* missing" for that key; a "required key missing" error names a required
\* key the payload lacks; and no payload that lacks a required key decodes.
C14_PresenceSatisfies ==
  pc = "decoded" =>
    /\ \A k \in SeqSet(requireKeys(typ)) \cap DOMAIN data : res.err # ErrRequired(k)
    /\ res.err.kind = "required" =>
         res.err.key \in SeqSet(requireKeys(typ)) \ DOMAIN data
    /\ res.err = NoErr => SeqSet(requireKeys(typ)) \subseteq DOMAIN data
    /\ RequiredErr(requireKeys(typ), data) = NoErr
         <=> SeqSet(requireKeys(typ)) \subseteq DOMAIN data

\* A Discriminator whose required propertyName is null was decoded without
\* error.
C14_Witness ==
  /\ pc = "decoded" /\ typ = "Discriminator"
  /\ "propertyName" \in DOMAIN data /\ data["propertyName"] = "null"
  /\ res.err = NoErr

\* The required keys a payload lacks, and the first of them in the order
\* requireKeysT lists them.
Missing(t, p) == SeqSet(requireKeys(t)) \ DOMAIN p

FirstMissing(t, p) ==
  requireKeys(t)[CHOOSE i \in DOMAIN requireKeys(t) :
                   /\ requireKeys(t)[i] \notin DOMAIN p
                   /\ \A j \in DOMAIN requireKeys(t) :
                        requireKeys(t)[j] \notin DOMAIN p => i <= j]

\* The unrecognized keys the decoder of t objects to.
Rejected(t, p) == IF t \in ChecksAdditional THEN Unrecognized(t, p) ELSE {}

NeitherErr ==
  ErrOneOf(0, { ArmErr("HasSchema", ErrRequired("schema")),
                ArmErr("HasContent", ErrRequired("content")) })

Alone(f) ==
  IF f.op = "decode"
    THEN [ret |-> Unmarshal(f.typ, f.node, f.data), out |-> MOk(JNull)]
    ELSE [ret |-> Idle, out |-> Marshal(f.typ, f.node)]

\* C17: the calls never write the package-level tables, and under every
\* interleaving of calls on nodes and payloads of their own each call
\* returns what it returns when run alone.
C17_ThreadSafety ==
  /\ tables = PackageTables
  /\ \A c \in Calls :
       calls[c].at = "done" =>
         /\ calls[c].ret = Alone(calls[c]).ret
         /\ calls[c].out = Alone(calls[c]).out

\* A decode has returned a node with an extension while an encode of another
\* goroutine is between its read of the constant fragment and the merge.
C17_Witness ==
  \E c, d \in Calls :
    /\ c # d
    /\ calls[c].op = "decode" /\ calls[c].at = "done"
    /\ calls[c].ret.err = NoErr /\ DOMAIN calls[c].ret.node.ext # {}
    /\ calls[d].op = "encode" /\ calls[d].at = "union"

\* The result of the call, once it has returned.
Merged == merged[1]

\* A value marshalUnion neither skips nor fails on at json.Marshal.
Skipped(m) == ~m.err /\ (m.j = JNull \/ m.j = Obj(<< >>))
ObjectFragment(m) == ~m.err /\ m.j.obj
ScalarFragment(m) == ~m.err /\ ~m.j.obj /\ m.j # JNull

\* The keys of an object fragment, and the value it gives a key.
KeysOf(m) == { m.j.pairs[i][1] : i \in DOMAIN m.j.pairs }
ValueIn(m, k) == LastWins(m.j.pairs)[k]

\* C18: over object-valued fragments the result is an object holding the
\* keys of all fragments, and a decoder of the result sees, for each key,
\* the value of the last fragment that holds it.
C18_KeyCollision ==
  (merged # << >> /\ \A i \in DOMAIN args : ObjectFragment(args[i])) =>
    /\ ~Merged.err /\ Merged.j.obj
    /\ DOMAIN LastWins(Merged.j.pairs) = UNION { KeysOf(args[i]) : i \in DOMAIN args }
    /\ \A i \in DOMAIN args : \A k \in KeysOf(args[i]) :
         (\A j \in DOMAIN args : k \in KeysOf(args[j]) => j <= i) =>
           LastWins(Merged.j.pairs)[k] = ValueIn(args[i], k)

\* Two fragments gave the key a different values, and the later one's is
\* the one the decoder sees.
C18_Witness ==
  /\ merged # << >> /\ ~Merged.err
  /\ args = << MOk(Obj(<< <<"a", "1">> >>)), MOk(Obj(<< <<"a", "2">>, <<"b", "1">> >>)) >>
  /\ LastWins(Merged.j.pairs)["a"] = "2"

\* The fragments the loop does not skip, in argument order.
Effective == SelectSeq(args, LAMBDA m : ~Skipped(m))

\* The argument list breaks the rule of the merge: among the fragments that
\* are not skipped, a scalar comes after an object, an object after a
\* scalar, or a scalar after a different scalar.
Conflicting ==
  \E i, j \in DOMAIN Effective :
    /\ i < j
    /\ ~Effective[i].err /\ ~Effective[j].err
    /\ \/ Effective[i].j.obj /\ ~Effective[j].j.obj
       \/ ~Effective[i].j.obj /\ Effective[j].j.obj
       \/ /\ ~Effective[i].j.obj /\ ~Effective[j].j.obj
          /\ Effective[i].j.raw # Effective[j].j.raw

\* C19: for a scalar after object fields, an object after a scalar and two
\* different scalars, marshalUnion returns an error and no output.
C19_InvariantViolation ==
  (merged # << >> /\ Conflicting) => Merged = MErr

\* Two different scalars were handed over and the call returned an error.
C19_Witness ==
  /\ merged # << >>
  /\ args = << MOk(Scalar("1")), MOk(Scalar("true")) >>
  /\ Merged = MErr

\* The first fragment the loop does not skip is a scalar.
ScalarFirst == Effective # << >> /\ ScalarFragment(Effective[1])

\* C20 as stated: when the first fragment that is neither an empty object
\* nor null is a scalar, the result of marshalUnion is that scalar.
C20_ScalarResult ==
  (merged # << >> /\ ScalarFirst) => Merged = MOk(Effective[1].j)

\* C20, amended: when the first fragment that is neither an empty object nor
\* null is a scalar and no other such fragment follows it, the result is
\* that scalar; when an object, a different scalar or a failing value
\* follows it, the result is an error.
C20_ScalarResultAmended ==
  (merged # << >> /\ ScalarFirst) =>
    /\ Len(Effective) = 1 => Merged = MOk(Effective[1].j)
    /\ (\E i \in DOMAIN Effective : Effective[i] # Effective[1]) => Merged = MErr

\* A SchemaAdditionalProperties with only Bool set was encoded as the bare
\* boolean.
C20_Witness ==
  /\ merged # << >>
  /\ args = << MOk(JNull), MOk(Scalar("true")) >>
  /\ args = FragmentsSchemaAdditionalProperties([SchemaOrRef |-> Nil, Bool |-> "true"])
  /\ Merged = MOk(Scalar("true"))

\* C21: a fragment that serializes to {} or to null adds nothing to the
\* result and leaves its kind alone: the call returns what it returns on the
\* argument list without those fragments, and {} when no other fragment is
\* in the list.
C21_EmptyFragments ==
  merged # << >> =>
    /\ Merged = marshalUnion(Effective)
    /\ Effective = << >> => Merged = MOk(Obj(<< >>))

\* An empty object and a null came after a scalar, and the scalar was
\* returned.
C21_Witness ==
  /\ merged # << >>
  /\ args = << MOk(Scalar("true")), MOk(Obj(<< >>)), MOk(JNull) >>
  /\ Merged = MOk(Scalar("true"))

\* The argument list holds scalars only, at least two, all with the same
\* text.
IdenticalScalars ==
  /\ Len(args) >= 2
  /\ \A i \in DOMAIN args : ScalarFragment(args[i]) /\ args[i] = args[1]

\* C30: two or more scalar fragments with the same serialization and no
\* object fragment give that scalar, without error.
C30_IdenticalScalars ==
  (merged # << >> /\ IdenticalScalars) => Merged = args[1]

\* true was handed over twice and the call returned an error.
C30_Rejected ==
  /\ merged # << >>
  /\ args = << MOk(Scalar("true")), MOk(Scalar("true")) >>
  /\ Merged = MErr

\* The known fields a node's own fragment writes, each with the encoding of
\* its in-memory value.
OwnPairs(t, n) ==
  { pr \in { <<k, EmitField(FieldKind(fields(t), k), n.f[k])>> : k \in FieldKeys(fields(t)) } :
      pr[2] # OMIT }

\* Where the encoding holds a pair.
Positions(pr) == { i \in DOMAIN out.j.pairs : out.j.pairs[i] = pr }

\* The fragments MarshalJSON hands to marshalUnion after the node's own
\* fields, and the keys they write.
LaterFragments(t, n) ==
  CASE t = "Parameter" ->
         << MarshalMapOfAnything(n.ext),
            IF n.sxcSet THEN MarshalSchemaXORContent(n.sxc) ELSE MOk(JNull),
            IF n.locSet THEN MarshalParameterLocation(n.loc) ELSE MOk(JNull) >>
    [] t = "HTTPSecurityScheme" ->
         << MarshalMapOfAnything(n.ext),
            MarshalPtr(n.Bearer, MarshalBearer(n.Bearer)),
            MarshalPtr(n.NonBearer, MarshalFields(fieldsNonBearer, n.NonBearer.f)) >>
    [] t \in { "Header", "APIKeySecurityScheme" } -> << MarshalMapOfAnything(n.ext) >>
    [] OTHER -> << >>

LaterKeys(t, n) ==
  UNION { { LaterFragments(t, n)[i].j.pairs[x][1] :
              x \in DOMAIN LaterFragments(t, n)[i].j.pairs } :
          i \in DOMAIN LaterFragments(t, n) }

\* The nodes that write constants: the constant-tagged ones, and Parameter
\* through its Location.
ConstWriters == ConstTagged \cup { "Parameter" }

\* C22 as stated: every constant the encoder of a node writes stands ahead
\* of the node's own fields, no own field is written under a constant key,
\* and every own field has its in-memory value in the encoding.
C22_ConstantFirst ==
  (pc = "marshalled" /\ typ \in ConstWriters /\ ~out.err) =>
    \A pr \in OwnPairs(typ, recv) :
      /\ \A c \in ConstsOf(typ, recv) :
           /\ c.key # pr[1]
           /\ \A i \in Positions(<<c.key, c.lit>>), j \in Positions(pr) : i < j
      /\ OutMap[pr[1]] = pr[2]

\* C22, amended: the node's own constT is the first thing in the encoding,
\* none of the node's own fields has a key of its own constT, and every own
\* field is written after it with its in-memory value; that value is the
\* effective one unless a fragment merged after the own fields (the
\* extension map or a populated arm with its constants) writes the key
\* again.
C22_ConstantFirstAmended ==
  (pc = "marshalled" /\ typ \in ConstWriters /\ ~out.err) =>
    /\ \A i \in DOMAIN consts(typ) :
         /\ out.j.pairs[i] = <<consts(typ)[i].key, consts(typ)[i].lit>>
         /\ consts(typ)[i].key \notin FieldKeys(fields(typ))
    /\ \A pr \in OwnPairs(typ, recv) :
         /\ \E j \in Positions(pr) : j > Len(consts(typ))
         /\ pr[1] \notin LaterKeys(typ, recv) => OutMap[pr[1]] = pr[2]

\* An HTTPSecurityScheme with Scheme "basic" and no arm was encoded: type
\* first, then scheme with the value held.
C22_Witness ==
  /\ pc = "marshalled" /\ typ = "HTTPSecurityScheme" /\ ~out.err
  /\ recv.f.scheme = "\"basic\"" /\ ~recv.Bearer.set /\ ~recv.NonBearer.set
  /\ out.j.pairs[1] = <<"type", "\"http\"">>
  /\ OutMap["scheme"] = "\"basic\""

\* The bucket of a key that is no known field: that of the first pattern in
\* declared order that matches it, for a Callback AdditionalProperties when
\* none does, and none otherwise.
FirstBucket(t, key) ==
  LET pats == PatternsOf(t)
      hit == { i \in DOMAIN pats : MatchesPattern(t, pats[i], key) } IN
  IF hit # {} THEN pats[CHOOSE i \in hit : \A j \in hit : i <= j].bucket
  ELSE IF t = "Callback" THEN "rest" ELSE "none"

\* C23: after a successful decode of a node with pattern buckets, every
\* payload key that is no known field is in exactly the bucket of the first
\* matching pattern and in no other, with its value, whatever the order in
\* which the keys were visited.
C23_BucketRouting ==
  (scan.at = "done" /\ scan.err = NoErr) =>
    \A b \in DOMAIN scan.buckets :
      /\ DOMAIN scan.buckets[b] =
           { k \in DOMAIN scan.data \ knownKeysOf(scan.typ) : FirstBucket(scan.typ, k) = b }
      /\ \A k \in DOMAIN scan.buckets[b] :
           scan.buckets[b][k] =
             IF b = "x" THEN Interface(scan.data[k]) ELSE scan.data[k]

\* A PathItem with an operation, an extension and a known key was decoded.
C23_Witness ==
  /\ scan.at = "done" /\ scan.err = NoErr /\ scan.typ = "PathItem"
  /\ DOMAIN scan.data = { "get", "x-b", "summary" }
  /\ DOMAIN scan.buckets.first = { "get" }
  /\ scan.buckets.x = [k \in { "x-b" } |-> "1"]

\* C24: when decode returns an error the receiver is as it was before the
\* call.
C24_NoPartialDecode ==
  (pc = "decoded" /\ res.err # NoErr) => res.node = recv

\* A fresh ParameterLocation was handed a payload that three arms accept:
\* decode failed and left the three arms populated.
C24_PartialDecode ==
  /\ pc = "decoded" /\ typ = "ParameterLocation" /\ recv = Zero(typ)
  /\ data = EmptyPayload
  /\ res.err.kind = "oneOf" /\ res.err.valid = 3
  /\ res.node.QueryParameter.set /\ res.node.HeaderParameter.set
  /\ res.node.CookieParameter.set /\ ~res.node.PathParameter.set

(***************************************************************************)
(* Reference unions: the arms of an *OrRef node tried on one payload       *)
(***************************************************************************)
RefUnions == { "SchemaOrRef", "SecuritySchemeOrRef", "CallbackOrRef" }

fieldsCallbackReference == << Field("$ref", "string") >>
knownKeysCallbackReference == { "$ref" }
requireKeysCallbackReference == << "$ref" >>

\* CallbackReference.UnmarshalJSON and SecuritySchemeReference.UnmarshalJSON:
\* the struct decode, the required key by presence, every other key
\* offending.
UnmarshalCallbackReference(n, p) ==
  LET rest == DOMAIN p \ knownKeysCallbackReference IN
  Finish(FirstErr(<< PlainMalformedErr(fieldsCallbackReference, p),
                  RequiredErr(requireKeysCallbackReference, p),
                  IF rest = {} THEN NoErr ELSE ErrAdditional(rest) >>),
         Val(StoreFields(fieldsCallbackReference, n.f, p), n.ext),
         n)

UnmarshalSecuritySchemeReference(n, p) == UnmarshalCallbackReference(n, p)

\* var val PathItem; json.Unmarshal(rawValue, &val): null leaves the zero
\* PathItem, which is what {} decodes to.
DecodePathItem(v) == IF v = "null" THEN "{}" ELSE v

\* The keys of the second loop of Callback.UnmarshalJSON: those the ^x-
\* loop did not delete.
CallbackRest(p) == { k \in DOMAIN p : ~regexX(k) }

\* The error Callback.UnmarshalJSON returns: that of a remaining key whose
\* value is no PathItem; no key is required and none offends.
CallbackErr(p) ==
  IF \A k \in CallbackRest(p) : AcceptsElement("PathItem", p[k])
    THEN NoErr ELSE ErrMalformed

\* The Callback after a call that returned nil: MapOfAnything as f's
\* companion ext, AdditionalProperties as f.
CallbackNode(n, p) ==
  Val([k \in DOMAIN n.f \cup CallbackRest(p) |->
         IF k \in CallbackRest(p) THEN DecodePathItem(p[k]) ELSE n.f[k]],
      BucketX({}, n.ext, p))

ZeroCallbackOrRef == [CallbackReference |-> Nil, Callback |-> Nil]
ZeroSecuritySchemeOrRef == [SecuritySchemeReference |-> Nil, SecurityScheme |-> Nil]

\* CallbackOrRef.UnmarshalJSON: the reference arm, then the inline arm; an
\* arm that failed is set to nil, whatever its decoder left in it.
UnmarshalCallbackOrRef(n, p) ==
  OneOf(<<"CallbackReference", "Callback">>,
        << UnmarshalCallbackReference(
             Target(n.CallbackReference, ZeroVal(fieldsCallbackReference)), p),
           Ret(CallbackErr(p), CallbackNode(Target(n.Callback, ZeroVal(<<>>)), p)) >>)

\* SecuritySchemeOrRef.UnmarshalJSON; the inline arm is itself a union, a
\* nil pointer of which is allocated before its decoder runs.
UnmarshalSecuritySchemeOrRef(n, p) ==
  LET inline == UnmarshalSecurityScheme(
                  IF n.SecurityScheme.set THEN n.SecurityScheme.f
                  ELSE ZeroSecurityScheme, p) IN
  OneOf(<<"SecuritySchemeReference", "SecurityScheme">>,
        << UnmarshalSecuritySchemeReference(
             Target(n.SecuritySchemeReference, ZeroVal(fieldsCallbackReference)), p),
           Ret(inline.err, Val(inline.node, NoExt)) >>)

UnmarshalRef(t, n, p) ==
  CASE t = "SchemaOrRef" -> UnmarshalSchemaOrRef(n, p)
    [] t = "SecuritySchemeOrRef" -> UnmarshalSecuritySchemeOrRef(n, p)
    [] t = "CallbackOrRef" -> UnmarshalCallbackOrRef(n, p)

ZeroRef(t) ==
  CASE t = "SchemaOrRef" -> ZeroSchemaOrRef
    [] t = "SecuritySchemeOrRef" -> ZeroSecuritySchemeOrRef
    [] t = "CallbackOrRef" -> ZeroCallbackOrRef

\* The keys and values the payloads of the reference unions are built from.
RefUniverse(t) ==
  CASE t = "SchemaOrRef" -> Universe("SchemaOrRef") \cup KV("$ref", { "null" })
    [] t = "SecuritySchemeOrRef" ->
         Universe("SecurityScheme") \cup KV("$ref", { "\"#/a\"", "null" })
    [] t = "CallbackOrRef" ->
         KV("$ref", { "\"#/a\"", "null", "{}" }) \cup KV("cb", { "{}", "1" })
         \cup KV("ev", { "null", "{\"$ref\":\"#/a\"}" }) \cup KV("x-a", { "1" })

RefPut(kv) ==
  /\ pc = "new"
  /\ kv[1] \notin DOMAIN data
  /\ Cardinality(DOMAIN data) < MaxKeys
  /\ data' = [k \in DOMAIN data \cup {kv[1]} |-> IF k = kv[1] THEN kv[2] ELSE data[k]]
  /\ UNCHANGED <<typ, recv, pc, res, out, res2, alt, tables, calls, args, merged, scan>>

\* var u T; err := json.Unmarshal(data, &u)
RefDecode ==
  /\ pc = "new"
  /\ res' = UnmarshalRef(typ, recv, data)
  /\ pc' = "tried"
  /\ UNCHANGED <<typ, data, recv, out, res2, alt, tables, calls, args, merged, scan>>

InitRef ==
  /\ tables = PackageTables
  /\ calls = [c \in Calls |-> NoCall]
  /\ args = << >>
  /\ merged = << >>
  /\ scan = NoScan
  /\ typ \in RefUnions
  /\ data = EmptyPayload
  /\ recv = ZeroRef(typ)
  /\ pc = "new"
  /\ res = Idle
  /\ out = MOk(JNull)
  /\ res2 = Idle
  /\ alt = NoAlt

NextRef ==
  \/ \E kv \in RefUniverse(typ) : RefPut(kv)
  \/ RefDecode

SpecRef == InitRef /\ [][NextRef]_vars

\* C25: the reference arm and the inline arm of an *OrRef union never both
\* accept a payload, so a decode that fails on the count of accepting arms
\* fails with none.
C25_DisjointArms ==
  (pc = "tried" /\ res.err # NoErr) => res.err.valid = 0

\* The payload {"$ref":null} handed to a CallbackOrRef: both arms accepted
\* it and the decode failed on the count.
C25_BothArms ==
  /\ pc = "tried" /\ typ = "CallbackOrRef"
  /\ DOMAIN data = { "$ref" } /\ data["$ref"] = "null"
  /\ res.err = ErrOneOf(2, {})
  /\ res.node.CallbackReference.set /\ res.node.Callback.set

\* The literal each SecurityScheme arm fixes the key type to.
constOfArm(a) ==
  CASE a = "APIKeySecurityScheme" -> constAPIKeySecurityScheme
    [] a = "HTTPSecurityScheme" -> constHTTPSecurityScheme
    [] a = "OAuth2SecurityScheme" -> constOAuth2SecurityScheme
    [] a = "OpenIDConnectSecurityScheme" -> constOpenIDConnectSecurityScheme

ArmsOfType(v) ==
  { a \in ArmNames("SecurityScheme") : Const("type", v) \in ConstSet(constOfArm(a)) }

\* C26: at most one of the four SecurityScheme arms accepts a payload, so a
\* SecurityScheme decode never fails with accepting arms, and a successful
\* decode leaves exactly the arm whose literal is the payload's type.
C26_SchemeArmsDisjoint ==
  (pc = "decoded" /\ typ = "SecurityScheme") =>
    /\ Cardinality(Accepting(typ, data)) <= 1
    /\ res.err # NoErr => res.err.valid = 0
    /\ res.err = NoErr =>
         /\ "type" \in DOMAIN data
         /\ Populated(typ, res.node) = ArmsOfType(data["type"])
         /\ Cardinality(Populated(typ, res.node)) = 1

\* A SecurityScheme holding an apiKey arm decoded an oauth2 payload: the
\* oauth2 arm is the one populated.
C26_Witness ==
  /\ pc = "decoded" /\ typ = "SecurityScheme"
  /\ recv.APIKeySecurityScheme.set
  /\ "type" \in DOMAIN data /\ data["type"] = "\"oauth2\""
  /\ res.err = NoErr
  /\ Populated(typ, res.node) = { "OAuth2SecurityScheme" }

Bearer(p) == "scheme" \in DOMAIN p /\ p["scheme"] = "\"bearer\""

NameMismatch == { k \in DOMAIN scan.data : ~regexAZAZ09(k) }

\* C28: a ComponentsSchemas decode fails only on the value of a key that
\* matches the name pattern, never on a key name; a key that does not match
\* is in neither the decoded map nor its encoding, and every matching key is
\* in both.
C28_NonMatchingIgnored ==
  (scan.typ = "ComponentsSchemas" /\ scan.at \in { "done", "encoded" }) =>
    /\ scan.err # NoErr =>
         /\ scan.err.kind # "additional"
         /\ \E k \in DOMAIN scan.data \ NameMismatch :
              ~SchemaOrRefAccepts(scan.data[k])
    /\ DOMAIN scan.buckets.first \cap NameMismatch = {}
    /\ scan.err = NoErr =>
         DOMAIN scan.buckets.first = DOMAIN scan.data \ NameMismatch
    /\ scan.at = "encoded" =>
         /\ ~out.err
         /\ KeysOf(out) = DOMAIN scan.data \ NameMismatch

\* A payload with a key that does not match, holding a value no SchemaOrRef
\* accepts, next to a matching key: the decode succeeded and the encoding
\* holds the matching key only.
C28_Witness ==
  /\ scan.typ = "ComponentsSchemas" /\ scan.at = "encoded"
  /\ DOMAIN scan.data = { "/a", "bogus" } /\ scan.data["/a"] = "1"
  /\ out = MOk(Obj(<< <<"bogus", "{}">> >>))

(***************************************************************************)
(* Enum types: UnmarshalJSON and MarshalJSON of a string-valued enum       *)
(***************************************************************************)
EnumTypes ==
  { "ParameterIn", "SchemaType", "EncodingStyle", "PathParameterStyle",
    "QueryParameterStyle", "APIKeySecuritySchemeIn" }

EncodingStyleVals == { "\"form\"", "\"spaceDelimited\"", "\"pipeDelimited\"",
                       "\"deepObject\"" }

\* The values the switch of an enum type lists.
EnumVals(t) ==
  CASE t = "ParameterIn" -> ParameterInVals
    [] t = "SchemaType" -> SchemaTypeVals
    [] t = "EncodingStyle" -> EncodingStyleVals
    [] t = "PathParameterStyle" -> PathParameterStyleVals
    [] t = "QueryParameterStyle" -> QueryParameterStyleVals
    [] t = "APIKeySecuritySchemeIn" -> APIKeySecuritySchemeInVals

\* Variant: a decoder that stores any string.
UnmarshalAnyString(t, i, raw) ==
  IF raw \in { "1", "true", "{}" } THEN Ret(ErrMalformed, i)
  ELSE Ret(NoErr, IF raw = "null" THEN "\"\"" ELSE raw)

\* The JSON texts handed to the enum decoders.
EnumTexts ==
  { "\"path\"", "\"query\"", "\"header\"", "\"simple\"", "\"form\"",
    "\"string\"", "\"deepObject\"", "\"Path\"", "\"\"", "\"\\u0070ath\"",
    "\"bogus\"", "null", "1", "true", "{}" }

\* var ii string; err := json.Unmarshal(data, &ii): a string text is
\* unquoted, its escapes resolved; null leaves ii empty; any other text is
\* an error.  Strings are written as their plain quoted text.
UnmarshalString(raw) ==
  CASE raw \in { "1", "true", "{}" } -> [err |-> TRUE, s |-> "\"\""]
    [] raw = "null" -> [err |-> FALSE, s |-> "\"\""]
    [] raw = "\"\\u0070ath\"" -> [err |-> FALSE, s |-> "\"path\""]
    [] OTHER -> [err |-> FALSE, s |-> raw]

\* fmt.Errorf("unexpected T value: %v", v)
ErrUnexpected(v) == Err("unexpected", "", "", v, {}, 0, {})

\* (*T).UnmarshalJSON of an enum type T on receiver i: `*i = v` is the last
\* statement, after the switch.
UnmarshalEnum(t, i, raw) ==
  LET d == UnmarshalString(raw) IN
  IF d.err THEN Ret(ErrMalformed, i)
  ELSE IF d.s \in EnumVals(t) THEN Ret(NoErr, d.s)
  ELSE Ret(ErrUnexpected(d.s), i)

\* T.MarshalJSON: the switch, then json.Marshal(string(i)).
MarshalEnum(t, i) == IF i \in EnumVals(t) THEN MOk(Scalar(i)) ELSE MErr

\* The values an enum variable holds before the call: the zero value, the
\* enumerated ones, and one set by a conversion T("bogus").
EnumReceivers(t) == { "\"\"", "\"bogus\"" } \cup EnumVals(t)

\* The struct that holds the enum in a field that is no pointer.
EnumOwners == { "ParameterIn", "APIKeySecuritySchemeIn" }
OwnerOf(t) == IF t = "ParameterIn" THEN "Parameter" ELSE "APIKeySecurityScheme"

\* err := json.Unmarshal(raw, &i)
EnumDecode(raw) ==
  /\ pc = "new"
  /\ data' = raw
  /\ res' = UnmarshalEnum(typ, recv, raw)
  /\ pc' = "decoded"
  /\ UNCHANGED <<typ, recv, out, res2, alt, tables, calls, args, merged, scan>>

\* out, err := json.Marshal(i)
EnumEncode ==
  /\ pc = "new"
  /\ out' = MarshalEnum(typ, recv)
  /\ pc' = "marshalled"
  /\ UNCHANGED <<typ, data, recv, res, res2, alt, tables, calls, args, merged, scan>>

\* out, err := json.Marshal(n) on a struct whose enum field holds i and
\* whose other fields are zero.
EnumEncodeOwner ==
  /\ pc = "new"
  /\ typ \in EnumOwners
  /\ out' = Marshal(OwnerOf(typ), Apply(Zero(OwnerOf(typ)), SetField("in", recv)))
  /\ pc' = "owner"
  /\ UNCHANGED <<typ, data, recv, res, res2, alt, tables, calls, args, merged, scan>>

InitEnum ==
  /\ tables = PackageTables
  /\ calls = [c \in Calls |-> NoCall]
  /\ args = << >>
  /\ merged = << >>
  /\ scan = NoScan
  /\ typ \in EnumTypes
  /\ data = "null"
  /\ recv \in EnumReceivers(typ)
  /\ pc = "new"
  /\ res = Idle
  /\ out = MOk(JNull)
  /\ res2 = Idle
  /\ alt = NoAlt

NextEnum ==
  \/ \E raw \in EnumTexts : EnumDecode(raw)
  \/ EnumEncode
  \/ EnumEncodeOwner

SpecEnum == InitEnum /\ [][NextEnum]_vars

\* C29: an enum decode succeeds exactly on the texts of strings whose value
\* is enumerated and then stores that value; a rejecting decode leaves the
\* receiver as it was; an encode fails exactly on the values that are not
\* enumerated, the zero value "" among them, and so does the encode of a
\* struct holding such a value in an enum field.
C29_EnumBothWays ==
  /\ pc = "decoded" =>
       /\ res.err = NoErr <=>
            (~UnmarshalString(data).err /\ UnmarshalString(data).s \in EnumVals(typ))
       /\ res.err = NoErr => res.node = UnmarshalString(data).s
       /\ res.err # NoErr => res.node = recv
  /\ pc = "marshalled" =>
       /\ out.err <=> recv \notin EnumVals(typ)
       /\ ~out.err => out.j = Scalar(recv)
  /\ pc = "owner" => (out.err <=> recv \notin EnumVals(typ))

\* A Parameter whose In was never set was encoded, and the encode failed.
C29_Witness ==
  /\ pc = "owner" /\ typ = "ParameterIn" /\ recv = "\"\"" /\ out.err

====
